---------------------------- MODULE Spec2Model ----------------------------
(***************************************************************************)
(* A model of the AVM1 object core of ruffle:                              *)
(*   core/src/avm1/script_object.rs  (ScriptObject, its TObject impl)      *)
(*   core/src/avm1/shared_object.rs  (SharedObject, a delegating wrapper)  *)
(*                                                                         *)
(* Property names are sequences of one-character strings, so that parsing  *)
(* a name as an index, printing an index as a name and ASCII case folding  *)
(* are computed rather than assumed.                                       *)
(*                                                                         *)
(* PropertyMap (crate::property_map) and Property (crate::avm1::property)  *)
(* and the prototype-walking `get` of the TObject trait are not part of    *)
(* the two source files; they are modelled from sections 4.1, 4.2 and 6 of *)
(* the specification.                                                      *)
(***************************************************************************)
EXTENDS Integers, Sequences, FiniteSets, TLC

VARIABLES
    objects,         \* cell -> ScriptObjectData (GcCell<ScriptObjectData>)
    shared,          \* cell -> SharedObjectData (GcCell<SharedObjectData>)
    case_sensitive,  \* activation.is_case_sensitive()
    hung,            \* TRUE once an operation has entered a loop it never leaves
    steps,           \* number of operations performed so far
    last             \* the operation performed last, its inputs and its results

vars == <<objects, shared, case_sensitive, hung, steps, last>>

----------------------------------------------------------------------------
(* Bounds of the model. *)

\* Operations performed in one behaviour.
MaxSteps == 3

\* Largest array index an operation is given.
MaxIndex == 2

----------------------------------------------------------------------------
(* Names. *)

ProtoName == <<"_", "_", "p", "r", "o", "t", "o", "_", "_">>
LengthName == <<"l", "e", "n", "g", "t", "h">>
EmptyName == <<>>

DigitChars == <<"0", "1", "2", "3", "4", "5", "6", "7", "8", "9">>
UpperChars == <<"A", "B", "C", "D", "E", "F", "G", "H", "I", "J", "K", "L", "M",
                "N", "O", "P", "Q", "R", "S", "T", "U", "V", "W", "X", "Y", "Z">>
LowerChars == <<"a", "b", "c", "d", "e", "f", "g", "h", "i", "j", "k", "l", "m",
                "n", "o", "p", "q", "r", "s", "t", "u", "v", "w", "x", "y", "z">>

IsDigit(c) == \E i \in 1..Len(DigitChars) : DigitChars[i] = c
DigitValue(c) == (CHOOSE i \in 1..Len(DigitChars) : DigitChars[i] = c) - 1

\* The result of name.parse::<usize>() when it is Err.
NoIndex == -1

RECURSIVE DigitsValue(_)
DigitsValue(ds) ==
    IF Len(ds) = 0 THEN 0
    ELSE 10 * DigitsValue(SubSeq(ds, 1, Len(ds) - 1)) + DigitValue(ds[Len(ds)])

\* name.parse::<usize>(): an optional leading "+", then one or more ASCII
\* digits and nothing else.  (The names of the model are far too short to
\* overflow a usize.)
parse_usize(name) ==
    LET digits == IF Len(name) > 0 /\ name[1] = "+" THEN Tail(name) ELSE name
    IN  IF Len(digits) > 0 /\ \A i \in 1..Len(digits) : IsDigit(digits[i])
        THEN DigitsValue(digits)
        ELSE NoIndex

\* index.to_string(): the canonical decimal spelling.
RECURSIVE to_string(_)
to_string(i) ==
    IF i < 10 THEN <<DigitChars[i + 1]>>
    ELSE to_string(i \div 10) \o <<DigitChars[(i % 10) + 1]>>

to_ascii_lowercase(c) ==
    IF \E i \in 1..Len(UpperChars) : UpperChars[i] = c
    THEN LowerChars[CHOOSE i \in 1..Len(UpperChars) : UpperChars[i] = c]
    ELSE c

eq_ignore_ascii_case(a, b) ==
    /\ Len(a) = Len(b)
    /\ \A i \in 1..Len(a) : to_ascii_lowercase(a[i]) = to_ascii_lowercase(b[i])

----------------------------------------------------------------------------
(* Values. *)

Undefined == <<"Undefined">>
Null == <<"Null">>
String(s) == <<"String", s>>
Number(n) == <<"Number", n>>
ObjectValue(o) == <<"Object", o>>

IsObjectValue(v) == v[1] = "Object"

\* Option<Object>: cells are numbered from 1, 0 is None.
NoObject == 0
\* Option<Executable>
NoExec == "None"
\* Option<Value>
NoValue == <<"None">>
Some(v) == <<"Some", v>>

\* proto().map_or(Value::Undefined, Value::Object)
OptionToValue(p) == IF p = NoObject THEN Undefined ELSE ObjectValue(p)

\* A faulty coercion that keeps the sign of the number.
coerce_to_length_signed(v) == IF v[1] = "Number" THEN v[2] ELSE 0

\* Value::coerce_to_f64 followed by |v| v.abs() as i32 and unwrap_or(0): a
\* number gives the truncation of its absolute value; the strings of the
\* model are not numeric, they coerce to NaN, and NaN as i32 is 0.
coerce_to_length(v) ==
    IF v[1] = "Number" THEN (IF v[2] < 0 THEN 0 - v[2] ELSE v[2]) ELSE 0

----------------------------------------------------------------------------
(* Attributes and properties (crate::avm1::property). *)

DontEnum == "DontEnum"
DontDelete == "DontDelete"
ReadOnly == "ReadOnly"
Attribute == {DontEnum, DontDelete, ReadOnly}

Stored(value, attributes) ==
    [kind |-> "Stored", value |-> value, attributes |-> attributes]
Virtual(get, set, attributes) ==
    [kind |-> "Virtual", get |-> get, set |-> set, attributes |-> attributes]

is_virtual(prop) == prop.kind = "Virtual"
is_enumerable(prop) == DontEnum \notin prop.attributes
can_delete(prop) == DontDelete \notin prop.attributes
can_overwrite(prop) == ReadOnly \notin prop.attributes

\* Property::set(new_value): the property afterwards, and the callable the
\* caller has to execute (NoExec when there is none).
PropertySet(prop, new_value) ==
    IF is_virtual(prop)
    THEN [prop |-> prop, exec |-> prop.set]
    ELSE IF can_overwrite(prop)
         THEN [prop |-> [prop EXCEPT !.value = new_value], exec |-> NoExec]
         ELSE [prop |-> prop, exec |-> NoExec]

set_prop_attributes(prop, new_atts) == [prop EXCEPT !.attributes = new_atts]

----------------------------------------------------------------------------
(* PropertyMap (crate::property_map): a sequence of <<key, property>>      *)
(* entries in insertion order.                                             *)

KeyMatches(key, name, cs) ==
    IF cs THEN key = name ELSE eq_ignore_ascii_case(key, name)

\* Position of the entry `name` resolves to: the first inserted match, 0
\* when there is none.
Find(map, name, cs) ==
    IF \E i \in 1..Len(map) : KeyMatches(map[i].key, name, cs)
    THEN CHOOSE i \in 1..Len(map) :
            /\ KeyMatches(map[i].key, name, cs)
            /\ \A j \in 1..(i - 1) : ~KeyMatches(map[j].key, name, cs)
    ELSE 0

contains_key(map, name, cs) == Find(map, name, cs) # 0

RemoveAt(map, i) == SubSeq(map, 1, i - 1) \o SubSeq(map, i + 1, Len(map))

\* insert: replaces the property under the existing key (casing and
\* position kept) or appends a new entry.
map_insert(map, name, prop, cs) ==
    LET i == Find(map, name, cs)
    IN  IF i # 0 THEN [map EXCEPT ![i].prop = prop]
        ELSE Append(map, [key |-> name, prop |-> prop])

map_remove(map, name, cs) ==
    LET i == Find(map, name, cs)
    IN  IF i # 0 THEN RemoveAt(map, i) ELSE map

Keys(map) == {map[i].key : i \in 1..Len(map)}

----------------------------------------------------------------------------
(* Callables.  The native functions a property can carry as its getter or  *)
(* setter; executing one yields Ok(value) or Err and changes no object.    *)

Ok(v) == <<"Ok", v>>
Err == <<"Err">>

GetterVirtual == "getter_virtual"  \* |_, _, _this, _args| Ok("Virtual!".into())
GetterThis == "getter_this"        \* |_, _, this, _args| Ok(this.into())
GetterErr == "getter_err"          \* a getter whose execution fails
SetterOk == "setter_ok"            \* a setter that returns normally
SetterErr == "setter_err"          \* a setter whose execution fails

Exec(fn, this, base_proto, args) ==
    CASE fn = GetterVirtual -> Ok(String("Virtual!"))
      [] fn = GetterThis -> Ok(ObjectValue(this))
      [] fn = SetterOk -> Ok(Undefined)
      [] OTHER -> Err

\* One execution of a callable, as the interpreter sees it.
Call(label, fn, this, base_proto, args) ==
    [label |-> label, fn |-> fn, this |-> this, base_proto |-> base_proto,
     args |-> args]

----------------------------------------------------------------------------
(* The heap.  A cell of `objects` holds a ScriptObjectData, a cell of      *)
(* `shared` a SharedObjectData; an Object handle is the cell it points to. *)

TYPE_OF_OBJECT == "object"

VectorStorage(vector) == [kind |-> "Vector", vector |-> vector]
PropertiesStorage(length) == [kind |-> "Properties", length |-> length]
IsVector(array) == array.kind = "Vector"

\* ScriptObject::object / object_cell / bare_object (with proto = None)
NewObjectData(proto) ==
    [prototype |-> proto, type_of |-> TYPE_OF_OBJECT, values |-> <<>>,
     array |-> PropertiesStorage(0), interfaces |-> <<>>]

Cells(objs, shrd) == DOMAIN objs \cup DOMAIN shrd

\* A faulty base() that hands out the first cell of the heap instead of
\* the wrapped ScriptObject.
Base_first(shrd, h) == IF h \in DOMAIN shrd THEN 1 ELSE h

\* SharedObject::base
Base(shrd, h) == IF h \in DOMAIN shrd THEN shrd[h].base ELSE h

\* A faulty sync_native_property that never updates an occupied entry.
sync_native_property_keep(objs, o, name, native_value, enumerable) ==
    LET map == objs[o].values
    IN  IF Find(map, name, FALSE) = 0 /\ native_value # NoValue
        THEN [objs EXCEPT ![o].values =
                Append(map, [key |-> name,
                             prop |-> Stored(native_value[2],
                                 IF enumerable THEN {} ELSE {DontEnum})])]
        ELSE objs

\* sync_native_property(name, native_value, is_enumerable) on cell o
sync_native_property(objs, o, name, native_value, enumerable) ==
    LET map == objs[o].values
        i == Find(map, name, FALSE)
    IN  IF i # 0
        THEN IF map[i].prop.kind = "Stored"
             THEN IF native_value = NoValue
                  THEN [objs EXCEPT ![o].values = RemoveAt(map, i)]
                  ELSE [objs EXCEPT ![o].values[i].prop.value = native_value[2]]
             ELSE objs
        ELSE IF native_value # NoValue
             THEN [objs EXCEPT ![o].values =
                     Append(map, [key |-> name,
                                  prop |-> Stored(native_value[2],
                                      IF enumerable THEN {} ELSE {DontEnum})])]
             ELSE objs

\* ScriptObject::array
NewArray(objs, cell, proto) ==
    sync_native_property(
        (cell :> [prototype |-> proto, type_of |-> TYPE_OF_OBJECT, values |-> <<>>,
                  array |-> VectorStorage(<<>>), interfaces |-> <<>>]) @@ objs,
        cell, LengthName, Some(Number(0)), FALSE)

\* vector.resize(new_len, Value::Undefined)
resize(vector, new_len) ==
    IF new_len <= Len(vector) THEN SubSeq(vector, 1, new_len)
    ELSE vector \o [i \in 1..(new_len - Len(vector)) |-> Undefined]

\* A faulty RemoveRange that leaves the mirrored properties in the table.
RemoveRange_none(objs, o, from, to) == objs

\* for i in to_remove { self.sync_native_property(&i.to_string(), .., None, true) }
RECURSIVE RemoveRange(_, _, _, _)
RemoveRange(objs, o, from, to) ==
    IF from >= to THEN objs
    ELSE RemoveRange(sync_native_property(objs, o, to_string(from), NoValue, TRUE),
                     o, from + 1, to)

length(objs, o) ==
    IF IsVector(objs[o].array) THEN Len(objs[o].array.vector)
    ELSE objs[o].array.length

set_length(objs, o, new_length) ==
    LET array == objs[o].array
        resized ==
            IF IsVector(array)
            THEN [objs EXCEPT ![o].array.vector = resize(array.vector, new_length)]
            ELSE [objs EXCEPT ![o].array.length = new_length]
        removed ==
            IF IsVector(array) /\ new_length < Len(array.vector)
            THEN RemoveRange(resized, o, new_length, Len(array.vector))
            ELSE resized
    IN  sync_native_property(removed, o, LengthName, Some(Number(new_length)), FALSE)

array_element(objs, o, index) ==
    LET array == objs[o].array
    IN  IF IsVector(array)
        THEN IF index < Len(array.vector) THEN array.vector[index + 1] ELSE Undefined
        ELSE LET i == Find(objs[o].values, to_string(index), FALSE)
             IN  IF index < array.length /\ i # 0
                    /\ objs[o].values[i].prop.kind = "Stored"
                 THEN objs[o].values[i].prop.value
                 ELSE Undefined

\* A faulty set_array_element that leaves the property table alone.
set_array_element_no_sync(objs, o, index, value) ==
    LET array == objs[o].array
    IN  IF IsVector(array)
        THEN LET grown == IF index >= Len(array.vector)
                          THEN resize(array.vector, index + 1)
                          ELSE array.vector
                 vector == [grown EXCEPT ![index + 1] = value]
             IN  [objs |-> [objs EXCEPT ![o].array.vector = vector],
                  ret |-> Len(vector)]
        ELSE [objs |-> objs, ret |-> array.length]

\* set_array_element(index, value): the heap afterwards and the length returned
set_array_element(objs, o, index, value) ==
    LET synced == sync_native_property(objs, o, to_string(index), Some(value), TRUE)
        array == objs[o].array
    IN  IF IsVector(array)
        THEN LET grown == IF index >= Len(array.vector)
                          THEN resize(array.vector, index + 1)
                          ELSE array.vector
                 vector == [grown EXCEPT ![index + 1] = value]
             IN  [objs |-> sync_native_property(
                              [synced EXCEPT ![o].array.vector = vector],
                              o, LengthName, Some(Number(Len(vector))), FALSE),
                  ret |-> Len(vector)]
        ELSE [objs |-> synced, ret |-> array.length]

\* A faulty delete_array_element that also removes the entry of the index
\* from the property table.
delete_array_element_synced(objs, o, index) ==
    IF IsVector(objs[o].array) /\ index < Len(objs[o].array.vector)
    THEN sync_native_property(
             [objs EXCEPT ![o].array.vector[index + 1] = Undefined],
             o, to_string(index), NoValue, TRUE)
    ELSE objs

delete_array_element(objs, o, index) ==
    IF IsVector(objs[o].array) /\ index < Len(objs[o].array.vector)
    THEN [objs EXCEPT ![o].array.vector[index + 1] = Undefined]
    ELSE objs

----------------------------------------------------------------------------
(* The TObject operations of ScriptObject.  `objs` is the heap of script   *)
(* objects, `shrd` the shared-object cells, `h` an Object handle, `o` the  *)
(* cell of a ScriptObject and `cs` activation.is_case_sensitive().         *)

proto(objs, shrd, h) == objs[Base(shrd, h)].prototype

has_own_property(objs, shrd, h, name, cs) ==
    IF name = ProtoName THEN TRUE
    ELSE contains_key(objs[Base(shrd, h)].values, name, cs)

has_own_virtual(objs, shrd, h, name, cs) ==
    LET map == objs[Base(shrd, h)].values
        i == Find(map, name, cs)
    IN  IF i # 0 THEN is_virtual(map[i].prop) ELSE FALSE

is_property_enumerable(objs, shrd, h, name, cs) ==
    LET map == objs[Base(shrd, h)].values
        i == Find(map, name, cs)
    IN  IF i # 0 THEN is_enumerable(map[i].prop) ELSE FALSE

\* A walk along proto() that revisits a handle never ends: a chain of
\* more links than there are cells is a cycle.
Fuel(objs, shrd) == Cardinality(Cells(objs, shrd))

RECURSIVE ChainEnds(_, _, _, _)
ChainEnds(objs, shrd, h, fuel) ==
    IF h = NoObject THEN TRUE
    ELSE IF fuel = 0 THEN FALSE
    ELSE ChainEnds(objs, shrd, proto(objs, shrd, h), fuel - 1)

\* The prototype chain of h reaches None.
ProtoChainEnds(objs, shrd, h) == ChainEnds(objs, shrd, h, Fuel(objs, shrd))

\* The outcome of a walk that never leaves its loop.
Diverges == -1

\* while let Some(this_proto) = proto {
\*     if this_proto.has_own_virtual(..) { break; }  proto = this_proto.proto(); }
RECURSIVE FindVirtual(_, _, _, _, _, _)
FindVirtual(objs, shrd, h, name, cs, fuel) ==
    IF h = NoObject THEN NoObject
    ELSE IF has_own_virtual(objs, shrd, h, name, cs) THEN h
    ELSE IF fuel = 0 THEN Diverges
    ELSE FindVirtual(objs, shrd, proto(objs, shrd, h), name, cs, fuel - 1)

\* has_property: own, or the prototype has it (recursively); Diverges when
\* the recursion never ends.
RECURSIVE HasPropertyWalk(_, _, _, _, _, _)
HasPropertyWalk(objs, shrd, h, name, cs, fuel) ==
    IF has_own_property(objs, shrd, h, name, cs) THEN 1
    ELSE IF proto(objs, shrd, h) = NoObject THEN 0
    ELSE IF fuel = 0 THEN Diverges
    ELSE HasPropertyWalk(objs, shrd, proto(objs, shrd, h), name, cs, fuel - 1)

has_property(objs, shrd, h, name, cs) ==
    HasPropertyWalk(objs, shrd, h, name, cs, Fuel(objs, shrd)) = 1

\* A faulty call_setter that never hands out the setter.
call_setter_none(objs, shrd, h, name, value, cs) == NoExec

\* call_setter(name, value)
call_setter(objs, shrd, h, name, value, cs) ==
    LET map == objs[Base(shrd, h)].values
        i == Find(map, name, cs)
    IN  IF i # 0 /\ is_virtual(map[i].prop)
        THEN PropertySet(map[i].prop, value).exec
        ELSE NoExec

\* A faulty coercion that yields no object.
coerce_to_object_none(value) == NoObject

\* Value::coerce_to_object of a value that is an object
coerce_to_object(value) == value[2]

SetResult(objs, calls, diverged) ==
    [objs |-> objs, calls |-> calls, hung |-> diverged]

\* A faulty set_entry that always compares keys exactly.
set_entry_exact(map, name, cs) == Find(map, name, TRUE)

\* values.entry(name, activation.is_case_sensitive()): the position of the
\* occupied entry, 0 for a vacant one
set_entry(map, name, cs) == Find(map, name, cs)

\* A faulty vacant_insert that loses the write.
vacant_insert_lost(map, name, value) == map

\* Entry::Vacant(entry) => entry.insert(Property::Stored { value, attributes: Default::default() })
vacant_insert(map, name, value) ==
    Append(map, [key |-> name, prop |-> Stored(value, {})])

\* internal_set(name, value, activation, context, this, base_proto) on cell o
internal_set(objs, shrd, o, name, value, cs, this, base_proto) ==
    IF name = ProtoName
    THEN SetResult([objs EXCEPT ![o].prototype = coerce_to_object(value)],
                   <<>>, FALSE)
    ELSE IF parse_usize(name) # NoIndex
    THEN SetResult(set_array_element(objs, o, parse_usize(name), value).objs,
                   <<>>, FALSE)
    ELSE IF name # EmptyName
    THEN LET len == coerce_to_length(value)
             objs1 == IF name = LengthName
                      THEN set_length(objs, o, IF len > 0 THEN len ELSE 0)
                      ELSE objs
             map == objs1[o].values
             is_vacant == ~contains_key(map, name, cs)
             i == set_entry(map, name, cs)
             this_proto == IF is_vacant
                           THEN FindVirtual(objs1, shrd, o, name, cs,
                                            Fuel(objs1, shrd))
                           ELSE NoObject
         IN  IF this_proto = Diverges
             THEN SetResult(objs1, <<>>, TRUE)
             ELSE IF this_proto # NoObject
             THEN \* worked = true
                  LET rval == call_setter(objs1, shrd, this_proto, name, value, cs)
                  IN  SetResult(objs1,
                          IF rval # NoExec
                          THEN <<Call("[Setter]", rval, this, this_proto, <<value>>)>>
                          ELSE <<>>,
                          FALSE)
             ELSE IF i # 0
             THEN LET r == PropertySet(map[i].prop, value)
                  IN  SetResult([objs1 EXCEPT ![o].values[i].prop = r.prop],
                          IF r.exec # NoExec
                          THEN <<Call("[Setter]", r.exec, this, base_proto, <<value>>)>>
                          ELSE <<>>,
                          FALSE)
             ELSE SetResult([objs1 EXCEPT ![o].values = vacant_insert(map, name, value)],
                            <<>>, FALSE)
    ELSE SetResult(objs, <<>>, FALSE)

\* Ok(()): the unit result of an operation that returns normally.
OkUnit == Ok(<<>>)

\* A faulty Discard that hands the callable's result on to the caller.
Propagate(res) == IF res = Err THEN Err ELSE OkUnit

\* let _ = rval.exec(..): the result of the callable is dropped
Discard(res) == OkUnit

\* What internal_set returns after the executions in `calls`: each
\* result is dropped and the function ends in Ok(()).
RECURSIVE set_result(_)
set_result(calls) ==
    IF Len(calls) = 0 THEN OkUnit
    ELSE LET c == Head(calls)
             r == Discard(Exec(c.fn, c.this, c.base_proto, c.args))
         IN  IF r = Err THEN Err ELSE set_result(Tail(calls))

\* TObject::set on a ScriptObject
set(objs, shrd, o, name, value, cs) ==
    internal_set(objs, shrd, o, name, value, cs, o, o)

\* A faulty get_local that answers from the prototype's table when the
\* name is not an own property.
get_local_inherited(objs, o, name, cs, this) ==
    LET p == objs[o].prototype
        own == Find(objs[o].values, name, cs)
        map == IF own = 0 /\ p # NoObject THEN objs[p].values ELSE objs[o].values
        i == Find(map, name, cs)
    IN  IF name = ProtoName THEN OptionToValue(p)
        ELSE IF i = 0 THEN Undefined
        ELSE IF map[i].prop.kind = "Stored" THEN map[i].prop.value
        ELSE LET res == Exec(map[i].prop.get, this, o, <<>>)
             IN  IF res[1] = "Ok" THEN res[2] ELSE Undefined

\* get_local(name, activation, context, this) on cell o
get_local(objs, o, name, cs, this) ==
    IF name = ProtoName THEN OptionToValue(objs[o].prototype)
    ELSE LET map == objs[o].values
             i == Find(map, name, cs)
         IN  IF i = 0 THEN Undefined
             ELSE IF map[i].prop.kind = "Stored" THEN map[i].prop.value
             ELSE LET res == Exec(map[i].prop.get, this, o, <<>>)
                  IN  IF res[1] = "Ok" THEN res[2] ELSE Undefined

\* The prototype-walking read of the TObject trait: the first object of the
\* chain that has the property as its own answers, with this = the receiver.
RECURSIVE search_prototype(_, _, _, _, _, _, _)
search_prototype(objs, shrd, p, name, cs, this, fuel) ==
    IF p = NoObject \/ fuel = 0 THEN Undefined
    ELSE IF has_own_property(objs, shrd, p, name, cs)
    THEN get_local(objs, Base(shrd, p), name, cs, this)
    ELSE search_prototype(objs, shrd, proto(objs, shrd, p), name, cs, this, fuel - 1)

get(objs, shrd, h, name, cs) ==
    IF has_own_property(objs, shrd, h, name, cs)
    THEN get_local(objs, Base(shrd, h), name, cs, h)
    ELSE search_prototype(objs, shrd, proto(objs, shrd, h), name, cs, h,
                          Fuel(objs, shrd))

\* A faulty delete that does not ask can_delete().
delete_any(objs, o, name, cs) ==
    LET map == objs[o].values
    IN  IF Find(map, name, cs) # 0
        THEN [objs |-> [objs EXCEPT ![o].values = map_remove(map, name, cs)],
              ret |-> TRUE]
        ELSE [objs |-> objs, ret |-> FALSE]

\* delete(activation, gc_context, name): the heap afterwards and the result
delete(objs, o, name, cs) ==
    LET map == objs[o].values
        i == Find(map, name, cs)
    IN  IF i # 0 /\ can_delete(map[i].prop)
        THEN [objs |-> [objs EXCEPT ![o].values = map_remove(map, name, cs)],
              ret |-> TRUE]
        ELSE [objs |-> objs, ret |-> FALSE]

add_property(objs, o, name, getter, setter, attributes) ==
    [objs EXCEPT ![o].values =
        map_insert(@, name, Virtual(getter, setter, attributes), FALSE)]

add_property_with_case(objs, o, name, getter, setter, attributes, cs) ==
    [objs EXCEPT ![o].values =
        map_insert(@, name, Virtual(getter, setter, attributes), cs)]

define_value(objs, o, name, value, attributes) ==
    [objs EXCEPT ![o].values = map_insert(@, name, Stored(value, attributes), FALSE)]

\* force_set_function: define_value of a function object
force_set_function(objs, o, name, function, attributes) ==
    define_value(objs, o, name, ObjectValue(function), attributes)

NewAttributes(prop, set_attrs, clear_attrs) ==
    set_prop_attributes(prop, (prop.attributes \ clear_attrs) \cup set_attrs)

\* set_attributes(name, set_attributes, clear_attributes); name is
\* Some(name) or NoValue
set_attributes(objs, o, name, set_attrs, clear_attrs) ==
    LET map == objs[o].values
    IN  IF name = NoValue
        THEN [objs EXCEPT ![o].values =
                [i \in 1..Len(map) |->
                    [map[i] EXCEPT !.prop = NewAttributes(@, set_attrs, clear_attrs)]]]
        ELSE LET i == Find(map, name[2], FALSE)
             IN  IF i # 0
                 THEN [objs EXCEPT ![o].values[i].prop =
                          NewAttributes(@, set_attrs, clear_attrs)]
                 ELSE objs

set_proto(objs, o, prototype) == [objs EXCEPT ![o].prototype = prototype]

\* The own keys that are enumerable, in insertion order.
RECURSIVE OwnEnumerable(_)
OwnEnumerable(map) ==
    IF Len(map) = 0 THEN <<>>
    ELSE (IF is_enumerable(Head(map).prop) THEN <<Head(map).key>> ELSE <<>>)
         \o OwnEnumerable(Tail(map))

\* A faulty NotShadowed that always compares keys exactly.
RECURSIVE NotShadowed_exact(_, _, _)
NotShadowed_exact(keys, map, cs) ==
    IF Len(keys) = 0 THEN <<>>
    ELSE (IF contains_key(map, Head(keys), TRUE) THEN <<>> ELSE <<Head(keys)>>)
         \o NotShadowed_exact(Tail(keys), map, cs)

\* proto_keys.into_iter().filter(|k| !object.values.contains_key(k, cs))
RECURSIVE NotShadowed(_, _, _)
NotShadowed(keys, map, cs) ==
    IF Len(keys) = 0 THEN <<>>
    ELSE (IF contains_key(map, Head(keys), cs) THEN <<>> ELSE <<Head(keys)>>)
         \o NotShadowed(Tail(keys), map, cs)

\* get_keys(activation); called only where the prototype chain ends
RECURSIVE GetKeys(_, _, _, _, _)
GetKeys(objs, shrd, h, cs, fuel) ==
    LET p == proto(objs, shrd, h)
        proto_keys == IF p = NoObject \/ fuel = 0 THEN <<>>
                      ELSE GetKeys(objs, shrd, p, cs, fuel - 1)
        map == objs[Base(shrd, h)].values
    IN  NotShadowed(proto_keys, map, cs) \o OwnEnumerable(map)

get_keys(objs, shrd, h, cs) == GetKeys(objs, shrd, h, cs, Fuel(objs, shrd))

\* as_ptr: the address of the GcCell the handle wraps
ScriptObject_as_ptr(o) == o
SharedObject_as_ptr(shrd, h) == h
as_ptr(shrd, h) ==
    IF h \in DOMAIN shrd THEN SharedObject_as_ptr(shrd, h) ELSE ScriptObject_as_ptr(h)

\* as_script_object: Some(*self) of a ScriptObject, Some(self.base()) of a
\* SharedObject
as_script_object(shrd, h) == Base(shrd, h)

\* SharedObject::empty_shared_obj(proto): the wrapper cell and the base
\* ScriptObject it allocates
NewSharedData(base) == [base |-> base, name |-> NoValue]

\* SharedObject::set_name
set_name(shrd, h, name) == [shrd EXCEPT ![h].name = Some(name)]

----------------------------------------------------------------------------
(* Operations.  Every action is one call of a TObject operation through    *)
(* the handle h; a SharedObject handle forwards to its base.               *)

NoName == <<"-">>

Last(op, h, name, value, attributes, ret, calls) ==
    [op |-> op, obj |-> h, name |-> name, value |-> value,
     attributes |-> attributes, ret |-> ret, calls |-> calls]

\* The program is running and the model has operations left.
Running == ~hung /\ steps < MaxSteps

Set(h, name, value) ==
    /\ Running
    /\ name = ProtoName =>
          IsObjectValue(value) /\ value[2] \in Cells(objects, shared)
    /\ LET r == set(objects, shared, Base(shared, h), name, value, case_sensitive)
       IN  /\ objects' = r.objs
           /\ hung' = r.hung
           /\ last' = Last("set", h, name, value, {}, set_result(r.calls), r.calls)
    /\ steps' = steps + 1
    /\ UNCHANGED <<shared, case_sensitive>>

Delete(h, name) ==
    /\ Running
    /\ LET r == delete(objects, Base(shared, h), name, case_sensitive)
       IN  /\ objects' = r.objs
           /\ last' = Last("delete", h, name, Undefined, {}, r.ret, <<>>)
    /\ steps' = steps + 1
    /\ UNCHANGED <<shared, case_sensitive, hung>>

DefineValue(h, name, value, attributes) ==
    /\ Running
    /\ objects' = define_value(objects, Base(shared, h), name, value, attributes)
    /\ last' = Last("define_value", h, name, value, attributes, Undefined, <<>>)
    /\ steps' = steps + 1
    /\ UNCHANGED <<shared, case_sensitive, hung>>

AddProperty(h, name, getter, setter, attributes) ==
    /\ Running
    /\ objects' = add_property(objects, Base(shared, h), name, getter, setter,
                               attributes)
    /\ last' = Last("add_property", h, name, Undefined, attributes, Undefined, <<>>)
    /\ steps' = steps + 1
    /\ UNCHANGED <<shared, case_sensitive, hung>>

AddPropertyWithCase(h, name, getter, setter, attributes) ==
    /\ Running
    /\ objects' = add_property_with_case(objects, Base(shared, h), name, getter,
                                         setter, attributes, case_sensitive)
    /\ last' = Last("add_property_with_case", h, name, Undefined, attributes,
                    Undefined, <<>>)
    /\ steps' = steps + 1
    /\ UNCHANGED <<shared, case_sensitive, hung>>

SetAttributes(h, name, set_attrs, clear_attrs) ==
    /\ Running
    /\ objects' = set_attributes(objects, Base(shared, h), name, set_attrs,
                                 clear_attrs)
    /\ last' = Last("set_attributes", h, IF name = NoValue THEN NoName ELSE name[2],
                    Undefined, set_attrs, Undefined, <<>>)
                @@ [clear_attrs |-> clear_attrs]
    /\ steps' = steps + 1
    /\ UNCHANGED <<shared, case_sensitive, hung>>

SetProto(h, prototype) ==
    /\ Running
    /\ objects' = set_proto(objects, Base(shared, h), prototype)
    /\ last' = Last("set_proto", h, NoName, OptionToValue(prototype), {},
                    Undefined, <<>>)
    /\ steps' = steps + 1
    /\ UNCHANGED <<shared, case_sensitive, hung>>

\* set_length(new_length); the record of the call keeps the old_length
\* the code reads before it resizes.
SetLength(h, new_length) ==
    /\ Running
    /\ objects' = set_length(objects, Base(shared, h), new_length)
    /\ last' = Last("set_length", h, NoName, Number(new_length), {}, Undefined, <<>>)
                @@ [old_length |-> length(objects, Base(shared, h))]
    /\ steps' = steps + 1
    /\ UNCHANGED <<shared, case_sensitive, hung>>

SetArrayElement(h, index, value) ==
    /\ Running
    /\ LET r == set_array_element(objects, Base(shared, h), index, value)
       IN  /\ objects' = r.objs
           /\ last' = Last("set_array_element", h, to_string(index), value, {},
                           Number(r.ret), <<>>)
    /\ steps' = steps + 1
    /\ UNCHANGED <<shared, case_sensitive, hung>>

DeleteArrayElement(h, index) ==
    /\ Running
    /\ objects' = delete_array_element(objects, Base(shared, h), index)
    /\ last' = Last("delete_array_element", h, to_string(index), Undefined, {},
                    Undefined, <<>>)
    /\ steps' = steps + 1
    /\ UNCHANGED <<shared, case_sensitive, hung>>

SyncNativeProperty(h, name, native_value, enumerable) ==
    /\ Running
    /\ h \in DOMAIN objects
    /\ objects' = sync_native_property(objects, h, name, native_value, enumerable)
    /\ last' = Last("sync_native_property", h, name,
                    IF native_value = NoValue THEN Undefined ELSE native_value[2],
                    IF enumerable THEN {} ELSE {DontEnum}, Undefined, <<>>)
    /\ steps' = steps + 1
    /\ UNCHANGED <<shared, case_sensitive, hung>>

ForceSetFunction(h, name, function, attributes) ==
    /\ Running
    /\ h \in DOMAIN objects
    /\ objects' = force_set_function(objects, h, name, function, attributes)
    /\ last' = Last("force_set_function", h, name, ObjectValue(function),
                    attributes, Undefined, <<>>)
    /\ steps' = steps + 1
    /\ UNCHANGED <<shared, case_sensitive, hung>>

\* get_local(name) with this = the handle; the callable it executes is the
\* getter of an own virtual property.
GetLocal(h, name) ==
    /\ Running
    /\ LET o == Base(shared, h)
           map == objects[o].values
           i == Find(map, name, case_sensitive)
       IN  last' = Last("get_local", h, name, Undefined, {},
                        Ok(get_local(objects, o, name, case_sensitive, h)),
                        IF name # ProtoName /\ i # 0 /\ is_virtual(map[i].prop)
                        THEN <<Call("[Getter]", map[i].prop.get, h, o, <<>>)>>
                        ELSE <<>>)
    /\ steps' = steps + 1
    /\ UNCHANGED <<objects, shared, case_sensitive, hung>>

AsScriptObject(h) ==
    /\ Running
    /\ last' = Last("as_script_object", h, NoName,
                    ObjectValue(as_script_object(shared, h)), {}, Undefined, <<>>)
    /\ steps' = steps + 1
    /\ UNCHANGED <<objects, shared, case_sensitive, hung>>

SetName(h, name) ==
    /\ Running
    /\ h \in DOMAIN shared
    /\ shared' = set_name(shared, h, name)
    /\ last' = Last("set_name", h, name, Undefined, {}, Undefined, <<>>)
    /\ steps' = steps + 1
    /\ UNCHANGED <<objects, case_sensitive, hung>>

----------------------------------------------------------------------------
(* The heap after construction. *)

NoLast == Last("none", NoObject, NoName, Undefined, {}, Undefined, <<>>)

\* The cells of the model.
ProtoCell == 1    \* ScriptObject::object(None), a prototype
ObjectCell == 2   \* ScriptObject::object(Some(ProtoCell))
ArrayCell == 3    \* ScriptObject::array(Some(ProtoCell))
SharedCell == 4   \* SharedObject::empty_shared_obj(Some(ProtoCell))
SharedBase == 5   \* ... and the base ScriptObject it allocates
ChildCell == 6    \* ScriptObject::object(Some(ObjectCell))

Foo == <<"f", "o", "o">>
FOO == <<"F", "O", "O">>
FooMixed == <<"F", "o", "o">>
One == <<"1">>
Zero == <<"0">>
PlusOne == <<"+", "1">>
Bar == <<"b", "a", "r">>

StrA == String("a")
StrB == String("b")

----------------------------------------------------------------------------
(* Spec: one object and its prototype, under set, define_value,            *)
(* add_property and delete.                                                *)

Names == {Foo, FOO, One, PlusOne, EmptyName, ProtoName}
AttributeSets == {{}, {ReadOnly}, {DontDelete}, {DontDelete, ReadOnly}}

Init ==
    /\ objects = (ProtoCell :> NewObjectData(NoObject))
                 @@ (ObjectCell :> NewObjectData(ProtoCell))
    /\ shared = <<>>
    /\ case_sensitive \in BOOLEAN
    /\ hung = FALSE
    /\ steps = 0
    /\ last = NoLast

Next ==
    \/ \E n \in {Foo, FOO}, v \in {StrA, StrB} : Set(ObjectCell, n, v)
    \/ \E n \in {One, PlusOne, EmptyName} : Set(ObjectCell, n, StrB)
    \/ \E c \in {ProtoCell, ObjectCell} : Set(ObjectCell, ProtoName, ObjectValue(c))
    \/ \E n \in Names : Delete(ObjectCell, n)
    \/ \E n \in {Foo, One, ProtoName}, a \in AttributeSets :
          DefineValue(ObjectCell, n, StrA, a)
    \/ \E s \in {NoExec, SetterOk} :
          \/ AddProperty(ProtoCell, Foo, GetterThis, s, {})
          \/ \E n \in {Foo, ProtoName} : AddProperty(ObjectCell, n, GetterThis, s, {})

Spec == Init /\ [][Next]_vars

----------------------------------------------------------------------------
(* SpecArray: an array object (Vector storage) under the array operations  *)
(* and the property operations on index names and "length".                *)

InitArray ==
    /\ objects = NewArray(ProtoCell :> NewObjectData(NoObject), ArrayCell, ProtoCell)
    /\ shared = <<>>
    /\ case_sensitive \in BOOLEAN
    /\ hung = FALSE
    /\ steps = 0
    /\ last = NoLast

NextArray ==
    \/ \E i \in 0..(MaxIndex - 1), v \in {StrA, StrB} : SetArrayElement(ArrayCell, i, v)
    \/ \E n \in 0..MaxIndex : SetLength(ArrayCell, n)
    \/ \E i \in 0..(MaxIndex - 1) : DeleteArrayElement(ArrayCell, i)
    \/ \E n \in {Zero, One} : Set(ArrayCell, n, StrB)
    \/ \E v \in {Number(1), StrA} : Set(ArrayCell, LengthName, v)
    \/ \E n \in {Zero, LengthName} : Delete(ArrayCell, n)
    \/ DefineValue(ArrayCell, Zero, StrA, {})
    \/ AddProperty(ArrayCell, Zero, GetterVirtual, NoExec, {})
    \/ SetAttributes(ArrayCell, Some(LengthName), {}, {DontEnum})

SpecArray == InitArray /\ [][NextArray]_vars

----------------------------------------------------------------------------
(* SpecKeys: a chain of three objects, ChildCell -> ObjectCell ->          *)
(* ProtoCell, whose property tables are filled with stored and virtual     *)
(* properties, enumerable and not, under names that differ in case.        *)

EnumSets == {{}, {DontEnum}}

\* The prototype at the end of the chain is bare, or was given one
\* enumerable property by define_value when it was built.
BuiltProto(defined) ==
    IF defined
    THEN define_value(ProtoCell :> NewObjectData(NoObject), ProtoCell, Foo, StrA, {})
    ELSE ProtoCell :> NewObjectData(NoObject)

InitKeys ==
    /\ \E defined \in BOOLEAN :
          objects = BuiltProto(defined)
                 @@ (ObjectCell :> NewObjectData(ProtoCell))
                 @@ (ChildCell :> NewObjectData(ObjectCell))
    /\ shared = <<>>
    /\ case_sensitive \in BOOLEAN
    /\ hung = FALSE
    /\ steps = 0
    /\ last = NoLast

NextKeys ==
    \/ \E c \in {ProtoCell, ObjectCell, ChildCell}, n \in {Foo, FOO}, a \in EnumSets :
          DefineValue(c, n, StrA, a)
    \/ \E c \in {ProtoCell, ObjectCell}, a \in EnumSets :
          AddProperty(c, Bar, GetterVirtual, NoExec, a)
    \/ \E n \in {Foo, Bar} : Set(ChildCell, n, StrB)
    \/ Delete(ObjectCell, Foo)
    \/ SetAttributes(ObjectCell, NoValue, {DontEnum}, {})

SpecKeys == InitKeys /\ [][NextKeys]_vars

----------------------------------------------------------------------------
(* SpecShared: a SharedObject wrapper over its base ScriptObject; every    *)
(* operation goes through the wrapper handle.                              *)

InitShared ==
    /\ objects = (ProtoCell :> NewObjectData(NoObject))
                 @@ (SharedBase :> NewObjectData(ProtoCell))
    /\ shared = (SharedCell :> NewSharedData(SharedBase))
    /\ case_sensitive \in BOOLEAN
    /\ hung = FALSE
    /\ steps = 0
    /\ last = NoLast

NextShared ==
    \/ \E h \in {SharedCell, SharedBase, ProtoCell} : AsScriptObject(h)
    \/ SetName(SharedCell, Foo)
    \/ \E n \in {Foo, FOO}, v \in {StrA, StrB} : Set(SharedCell, n, v)
    \/ Delete(SharedCell, Foo)
    \/ \E a \in {{}, {ReadOnly}} : DefineValue(SharedCell, Foo, StrA, a)
    \/ AddPropertyWithCase(SharedCell, FOO, GetterVirtual, SetterOk, {})
    \/ \E p \in {NoObject, ProtoCell} : SetProto(SharedCell, p)
    \/ \E v \in {NoValue, Some(StrB)} : SyncNativeProperty(SharedBase, Foo, v, TRUE)
    \/ ForceSetFunction(ProtoCell, Foo, ProtoCell, {DontEnum})

SpecShared == InitShared /\ [][NextShared]_vars

----------------------------------------------------------------------------
(* Observations shared by the properties below. *)

\* The handle and the cell the last operation was performed on.
LastCell == Base(shared, last.obj)

\* get(name) on handle h in the current state.
Get(h, name) == get(objects, shared, h, name, case_sensitive)

\* The objects reached from h by following proto() one or more times.
RECURSIVE AncestorsFrom(_, _, _, _)
AncestorsFrom(objs, shrd, p, fuel) ==
    IF p = NoObject \/ fuel = 0 THEN {}
    ELSE {p} \cup AncestorsFrom(objs, shrd, proto(objs, shrd, p), fuel - 1)

Ancestors(objs, shrd, h) ==
    AncestorsFrom(objs, shrd, proto(objs, shrd, h), Fuel(objs, shrd))

\* The object is as ScriptObject::object(Some(ProtoCell)) constructed it.
Fresh(objs, o) == objs[o] = NewObjectData(ProtoCell)

StartsWithDigit(name) == Len(name) > 0 /\ IsDigit(name[1])

\* The position of the own property `name` resolves to, 0 when none.
Resolve(objs, o, name, cs) == Find(objs[o].values, name, cs)

----------------------------------------------------------------------------
(* C1 *)

\* C1 as stated: for every name that does not start with an ASCII digit, is
\* not "__proto__" and is not empty, and every value v, after set(name, v)
\* on a freshly constructed object get(name) returns v.
C1_SetGetNoDigit ==
    [][ ( /\ last'.op = "set" /\ ~hung'
          /\ Fresh(objects, Base(shared, last'.obj))
          /\ ~StartsWithDigit(last'.name)
          /\ last'.name # ProtoName
          /\ last'.name # EmptyName )
        => get(objects', shared', last'.obj, last'.name, case_sensitive')
              = last'.value ]_vars

\* C1 as amended: for every name that does not parse as an unsigned integer
\* (an optional "+" and then ASCII digits), is not "__proto__" and is not
\* empty, and every value v, after set(name, v) on a freshly constructed
\* object none of whose prototypes has an own virtual property of that name,
\* get(name) returns v.
C1_SetGet ==
    [][ ( /\ last'.op = "set" /\ ~hung'
          /\ Fresh(objects, Base(shared, last'.obj))
          /\ parse_usize(last'.name) = NoIndex
          /\ last'.name # ProtoName
          /\ last'.name # EmptyName
          /\ \A a \in Ancestors(objects, shared, last'.obj) :
                ~has_own_virtual(objects, shared, a, last'.name, case_sensitive) )
        => get(objects', shared', last'.obj, last'.name, case_sensitive')
              = last'.value ]_vars

\* A first set("FOO", v) on the fresh object, read back, while the prototype
\* carries a virtual property under another casing of the name.
C1_Witness ==
    /\ last.op = "set" /\ last.name = FOO /\ last.obj = ObjectCell
    /\ case_sensitive
    /\ has_own_virtual(objects, shared, ProtoCell, Foo, case_sensitive)
    /\ objects[ObjectCell].values = <<[key |-> FOO, prop |-> Stored(last.value, {})]>>
    /\ Get(ObjectCell, FOO) = last.value

----------------------------------------------------------------------------
(* C2 *)

\* C2 as stated, in its ReadOnly half: for any property name (other than
\* "__proto__", whose writes go to the prototype link) and any attribute set
\* containing ReadOnly, after define_value(name, v0, attrs) followed by
\* set(name, v1), get(name) still returns v0.
C2_ReadOnlyKept ==
    [][ ( /\ last.op = "define_value" /\ ReadOnly \in last.attributes
          /\ last'.op = "set" /\ ~hung'
          /\ last'.obj = last.obj /\ last'.name = last.name
          /\ last.name # ProtoName )
        => get(objects', shared', last.obj, last.name, case_sensitive')
              = last.value ]_vars

----------------------------------------------------------------------------
(* C3 *)

\* A spelling set writes under: not empty, not "__proto__", and either no
\* index or the canonical spelling of one.
WritesUnderName(name) ==
    /\ name # EmptyName
    /\ name # ProtoName
    /\ parse_usize(name) # NoIndex => to_string(parse_usize(name)) = name

\* C3 as stated: for any attribute set containing DontDelete, delete(name)
\* on a property defined with those attributes returns false and get(name)
\* is unchanged; a subsequent set(name, w) changes the value to w, and a
\* further delete(name) still returns false with get(name) = w.
C3_DontDeleteAnyAttrs ==
    [][ ( /\ last.op = "define_value" /\ DontDelete \in last.attributes
          /\ last'.obj = last.obj /\ last'.name = last.name /\ ~hung' )
        => /\ last'.op = "delete" =>
                /\ last'.ret = FALSE
                /\ get(objects', shared', last.obj, last.name, case_sensitive')
                      = Get(last.obj, last.name)
           /\ last'.op = "set" =>
                /\ get(objects', shared', last.obj, last.name, case_sensitive')
                      = last'.value
                /\ ~delete(objects', Base(shared, last.obj), last.name,
                           case_sensitive').ret ]_vars

\* C3 as amended: when name resolves, under the activation's case
\* sensitivity, to an own property carrying DontDelete, delete(name) returns
\* false and changes nothing; when that property is Stored and lacks
\* ReadOnly, and name is a spelling set writes under (not empty, not
\* "__proto__", not a non-canonical spelling of an index such as "+1"),
\* set(name, w) changes the value to w and a further delete(name) still
\* returns false.
C3_DontDelete ==
    [][ LET o == Base(shared, last'.obj)
            n == last'.name
            i == Resolve(objects, o, n, case_sensitive)
        IN  ( /\ last'.op \in {"delete", "set"} /\ ~hung'
              /\ i # 0
              /\ DontDelete \in objects[o].values[i].prop.attributes )
            => /\ last'.op = "delete" => last'.ret = FALSE /\ objects' = objects
               /\ ( /\ last'.op = "set"
                    /\ objects[o].values[i].prop.kind = "Stored"
                    /\ ReadOnly \notin objects[o].values[i].prop.attributes
                    /\ WritesUnderName(n) )
                  => /\ get(objects', shared', last'.obj, n, case_sensitive')
                          = last'.value
                     /\ ~delete(objects', o, n, case_sensitive').ret ]_vars

\* define_value("foo", "a", {DontDelete}), set("foo", "b"), delete("foo"):
\* the delete was refused and the written value is still there.
C3_Witness ==
    /\ last.op = "delete" /\ last.name = Foo /\ last.ret = FALSE
    /\ LET i == Resolve(objects, LastCell, Foo, case_sensitive)
       IN  /\ i # 0
           /\ objects[LastCell].values[i].prop = Stored(StrB, {DontDelete})
    /\ Get(last.obj, Foo) = StrB

----------------------------------------------------------------------------
(* C4 *)

\* C4 as stated: for every virtual property name with getter G on object O,
\* get(name) returns the result of executing G with this = O; and
\* set(name, v) on a virtual property without a setter changes nothing: the
\* property table is as before and get(name) still returns G's result.
C4_VirtualGet ==
    [][ /\ \A o \in DOMAIN objects' : \A k \in 1..Len(objects'[o].values) :
              LET entry == objects'[o].values[k]
                  res == Exec(entry.prop.get, o, o, <<>>)
              IN  (is_virtual(entry.prop) /\ res[1] = "Ok")
                  => get(objects', shared', o, entry.key, case_sensitive') = res[2]
        /\ LET o == Base(shared, last'.obj)
               i == Resolve(objects, o, last'.name, case_sensitive)
           IN  ( /\ last'.op = "set" /\ ~hung' /\ i # 0
                 /\ is_virtual(objects[o].values[i].prop)
                 /\ objects[o].values[i].prop.set = NoExec )
               => /\ objects'[o].values = objects[o].values
                  /\ get(objects', shared', last'.obj, last'.name, case_sensitive')
                        = Get(last'.obj, last'.name) ]_vars

----------------------------------------------------------------------------
(* C7 *)

\* C7 as stated: in every state reachable through the public operations the
\* property table of a ScriptObject never contains a key named "__proto__".
C7_NoProtoKey ==
    \A o \in DOMAIN objects : ProtoName \notin Keys(objects[o].values)

----------------------------------------------------------------------------
(* C8 *)

\* C8 as stated: for every object reachable by any sequence of public
\* operations, the list returned by get_keys never contains "__proto__".
C8_KeysWithoutProto ==
    \A h \in Cells(objects, shared) :
        ProtoChainEnds(objects, shared, h) =>
            LET keys == get_keys(objects, shared, h, case_sensitive)
            IN  \A k \in 1..Len(keys) : keys[k] # ProtoName

----------------------------------------------------------------------------
(* C10 *)

KeySeq(map) == [k \in 1..Len(map) |-> map[k].key]

Listed(keys, name) == \E k \in 1..Len(keys) : keys[k] = name

\* C10: in case-insensitive mode, after set("FOO", v) on an object without
\* that property, get("foo") returns v, has_own_property("Foo") is true and
\* get_keys lists the key as "FOO" (and not as "foo"); a later set("foo", w),
\* while the property under "FOO" is a writable stored one, replaces the
\* value under the existing key and leaves the keys as they are.
C10_CaseInsensitive ==
    [][ LET o == Base(shared, last'.obj)
            i == Find(objects[o].values, Foo, FALSE)
            keys == get_keys(objects', shared', last'.obj, FALSE)
        IN  (~case_sensitive /\ last'.op = "set" /\ ~hung')
            => /\ ( /\ last'.name = FOO
                    /\ ~has_property(objects, shared, last'.obj, FOO, FALSE) )
                  => /\ get(objects', shared', last'.obj, Foo, FALSE) = last'.value
                     /\ has_own_property(objects', shared', last'.obj, FooMixed, FALSE)
                     /\ Listed(keys, FOO) /\ ~Listed(keys, Foo)
               /\ ( /\ last'.name = Foo
                    /\ i # 0
                    /\ objects[o].values[i].key = FOO
                    /\ objects[o].values[i].prop.kind = "Stored"
                    /\ ReadOnly \notin objects[o].values[i].prop.attributes )
                  => /\ KeySeq(objects'[o].values) = KeySeq(objects[o].values)
                     /\ objects'[o].values[i].prop.value = last'.value
                     /\ get(objects', shared', last'.obj, FOO, FALSE) = last'.value ]_vars

\* After two operations in case-insensitive mode, the second a set("foo", "a"):
\* the table holds one key, spelled "FOO", with the value "a".
C10_Witness ==
    /\ ~case_sensitive
    /\ last.op = "set" /\ last.name = Foo /\ last.value = StrA
    /\ steps = 2
    /\ objects[LastCell].values = <<[key |-> FOO, prop |-> Stored(StrA, {})]>>
    /\ Get(last.obj, Foo) = StrA
    /\ get_keys(objects, shared, last.obj, FALSE) = <<FOO>>

----------------------------------------------------------------------------
(* C5 *)

\* The position of the table entry named str(i), 0 when there is none.
IndexEntry(objs, o, i) == Find(objs[o].values, to_string(i), TRUE)

\* C5: for every object with Vector storage, in every reachable state, each
\* table entry named str(i) with i < vector.len() holds a value equal to
\* vector[i], and the "length" property, if present, is non-enumerable and
\* equals vector.len().
C5_DualView ==
    \A o \in DOMAIN objects :
        IsVector(objects[o].array) =>
            LET vector == objects[o].array.vector
                map == objects[o].values
                l == Find(map, LengthName, TRUE)
            IN  /\ \A i \in 0..(Len(vector) - 1) :
                      LET k == IndexEntry(objects, o, i)
                      IN  k # 0 => /\ map[k].prop.kind = "Stored"
                                   /\ map[k].prop.value = vector[i + 1]
                /\ l # 0 => /\ ~is_enumerable(map[l].prop)
                             /\ map[l].prop.kind = "Stored"
                             /\ map[l].prop.value = Number(Len(vector))

----------------------------------------------------------------------------
(* C6 *)

\* The keys of `keys` that no own key of `map` matches, in order.
Unshadowed(keys, map, cs) ==
    SelectSeq(keys, LAMBDA k :
        ~\E i \in 1..Len(map) : KeyMatches(map[i].key, k, cs))

\* The keys of the enumerable entries of `map`, in insertion order.
EnumerableKeys(map) ==
    LET entries == SelectSeq(map, LAMBDA e : DontEnum \notin e.prop.attributes)
    IN  [i \in 1..Len(entries) |-> entries[i].key]

\* get_keys of the prototype of o, empty when there is none.
ProtoKeys(o) ==
    IF proto(objects, shared, o) = NoObject THEN <<>>
    ELSE get_keys(objects, shared, proto(objects, shared, o), case_sensitive)

\* C6: get_keys(O) is the keys of get_keys(prototype) that no own key of O
\* (enumerable or not) matches under the current case sensitivity, followed
\* by O's own enumerable keys in insertion order; no name appears twice and
\* no own key carrying DontEnum (stored or virtual) appears.
C6_GetKeys ==
    \A o \in DOMAIN objects :
        ProtoChainEnds(objects, shared, o) =>
            LET keys == get_keys(objects, shared, o, case_sensitive)
                map == objects[o].values
            IN  /\ keys = Unshadowed(ProtoKeys(o), map, case_sensitive)
                            \o EnumerableKeys(map)
                /\ \A i, j \in 1..Len(keys) : keys[i] = keys[j] => i = j
                /\ \A e \in 1..Len(map) :
                      DontEnum \in map[e].prop.attributes =>
                          ~\E i \in 1..Len(keys) :
                              KeyMatches(keys[i], map[e].key, case_sensitive)

\* In case-insensitive mode an own key of ObjectCell that carries DontEnum
\* hides a key of ProtoCell spelled in another case, and ChildCell lists a
\* key inherited from ObjectCell followed by an own key.
C6_Witness ==
    LET proto_keys == get_keys(objects, shared, ProtoCell, case_sensitive)
        object_keys == get_keys(objects, shared, ObjectCell, case_sensitive)
        child_keys == get_keys(objects, shared, ChildCell, case_sensitive)
        object_map == objects[ObjectCell].values
        child_map == objects[ChildCell].values
    IN  /\ ~case_sensitive
        /\ \E i \in 1..Len(proto_keys), e \in 1..Len(object_map) :
              /\ DontEnum \in object_map[e].prop.attributes
              /\ object_map[e].key # proto_keys[i]
              /\ eq_ignore_ascii_case(object_map[e].key, proto_keys[i])
              /\ \A k \in 1..Len(object_keys) : object_keys[k] # proto_keys[i]
        /\ Len(object_keys) >= 1
        /\ Len(child_map) >= 1
        /\ child_keys = object_keys \o <<child_map[1].key>>

----------------------------------------------------------------------------
(* C9 *)

\* C9: object identity is preserved across wrappers: the ScriptObject that
\* as_script_object() hands out for a handle denotes the same underlying
\* object as the handle, so its as_ptr equals the handle's as_ptr.
C9_IdentityPreserved ==
    last.op = "as_script_object" =>
        as_ptr(shared, last.obj) = as_ptr(shared, last.value[2])

----------------------------------------------------------------------------
(* SpecElements: an array (Vector storage) and a plain object (Properties  *)
(* storage) over one prototype, under the indexed operations, with         *)
(* properties defined under an index name on the objects and on the        *)
(* prototype.                                                              *)

InitElements ==
    /\ objects = NewArray((ProtoCell :> NewObjectData(NoObject))
                          @@ (ObjectCell :> NewObjectData(ProtoCell)),
                          ArrayCell, ProtoCell)
    /\ shared = <<>>
    /\ case_sensitive \in BOOLEAN
    /\ hung = FALSE
    /\ steps = 0
    /\ last = NoLast

NextElements ==
    \/ \E c \in {ArrayCell, ObjectCell}, i \in 0..(MaxIndex - 1), v \in {StrA, StrB} :
          SetArrayElement(c, i, v)
    \/ \E c \in {ArrayCell, ObjectCell}, n \in 0..MaxIndex : SetLength(c, n)
    \/ \E c \in {ArrayCell, ObjectCell} : AddProperty(c, One, GetterVirtual, NoExec, {})
    \/ DefineValue(ProtoCell, One, StrB, {})
    \/ DefineValue(ArrayCell, One, StrA, {DontEnum})
    \/ DefineValue(ArrayCell, LengthName, StrA, {})

SpecElements == InitElements /\ [][NextElements]_vars

----------------------------------------------------------------------------
(* C11 *)

\* The index the last indexed operation was called with.
LastIndex == parse_usize(last.name)

\* C11 as stated: for every object (Vector or Properties storage), every
\* index i and value v, after set_array_element(i, v) the call
\* array_element(i) returns v.
C11_RoundTripAnyStorage ==
    last.op = "set_array_element" =>
        array_element(objects, LastCell, LastIndex) = last.value

\* C11: after set_array_element(i, v), array_element(i) returns v on an
\* object with Vector storage, and on an object with Properties storage
\* when i < length() and the table holds no virtual property named str(i).
C11_RoundTrip ==
    ( /\ last.op = "set_array_element"
      /\ \/ IsVector(objects[LastCell].array)
         \/ /\ LastIndex < length(objects, LastCell)
            /\ ~has_own_virtual(objects, shared, LastCell, last.name, FALSE) )
    => array_element(objects, LastCell, LastIndex) = last.value

\* The last of MaxSteps operations is set_array_element(i, "b") on the
\* plain object, below its length, and array_element(i) reads back "b".
C11_Witness ==
    /\ last.op = "set_array_element"
    /\ ~IsVector(objects[LastCell].array)
    /\ LastIndex < length(objects, LastCell)
    /\ last.value = StrB
    /\ array_element(objects, LastCell, LastIndex) = StrB
    /\ steps = MaxSteps

----------------------------------------------------------------------------
(* C12 *)

\* The indices a set_length that shrinks a Vector removes: [n, old_len).
Removed ==
    IF last.op = "set_length" /\ IsVector(objects[LastCell].array)
    THEN last.value[2]..(last.old_length - 1)
    ELSE {}

\* Some object on the prototype chain of h has an own property `name`.
Inherits(h, name) ==
    \E a \in Ancestors(objects, shared, h) :
        has_own_property(objects, shared, a, name, case_sensitive)

\* C12 as stated: after set_length(n), length() returns n for both storage
\* kinds, and when set_length shrinks a Vector from old_len to n, get(str(i))
\* returns Undefined for every i in [n, old_len).
C12_SetLengthClears ==
    last.op = "set_length" =>
        /\ length(objects, LastCell) = last.value[2]
        /\ \A i \in Removed : Get(last.obj, to_string(i)) = Undefined

\* C12: after set_length(n), length() returns n for both storage kinds; when
\* it shrinks a Vector from old_len to n, no stored property named str(i)
\* is left for any i in [n, old_len), and get(str(i)) returns Undefined
\* unless the object has a virtual property of that name or inherits a
\* property of that name.
C12_SetLength ==
    last.op = "set_length" =>
        /\ length(objects, LastCell) = last.value[2]
        /\ \A i \in Removed :
              LET k == Find(objects[LastCell].values, to_string(i), FALSE)
              IN  /\ k # 0 => is_virtual(objects[LastCell].values[k].prop)
                  /\ (k = 0 /\ ~Inherits(last.obj, to_string(i)))
                        => Get(last.obj, to_string(i)) = Undefined

\* set_length(1) has shrunk the array from two elements to one, the table
\* holds no property "1" any more and get("1") is Undefined.
C12_Witness ==
    /\ last.op = "set_length"
    /\ last.obj = ArrayCell
    /\ last.old_length = 2
    /\ last.value = Number(1)
    /\ objects[ArrayCell].array.vector # <<Undefined>>
    /\ Find(objects[ArrayCell].values, One, FALSE) = 0
    /\ Get(ArrayCell, One) = Undefined

----------------------------------------------------------------------------
(* C13 *)

\* What C13 says of a step set_array_element(i, v) on cell o whose length
\* was old_len: grown to i + 1 when i >= old_len, unchanged otherwise.
GrowsTo(objs_before, objs_after, h, o, i, ret, cs) ==
    LET old_len == length(objs_before, o)
        keys == get_keys(objs_after, shared, h, cs)
    IN  IF i >= old_len
        THEN /\ length(objs_after, o) = i + 1
             /\ \A j \in old_len..(i - 1) : array_element(objs_after, o, j) = Undefined
             /\ ret = Number(i + 1)
             /\ get(objs_after, shared, h, LengthName, cs) = Number(i + 1)
             /\ Listed(keys, to_string(i))
             /\ ~Listed(keys, LengthName)
        ELSE length(objs_after, o) = old_len

\* The step is a set_array_element on an object with Vector storage.
VectorElementStep ==
    /\ last'.op = "set_array_element"
    /\ last'.obj \in DOMAIN objects
    /\ IsVector(objects[last'.obj].array)

\* C13 as stated: on an object with Vector storage, set_array_element(i, v)
\* with i >= length() grows the array so that length() = i + 1, every slot
\* that did not exist below i reads as Undefined through array_element, the
\* returned value and get("length") equal i + 1, str(i) appears in get_keys
\* and "length" does not; with i < length() the length is unchanged.
C13_GrowsAnyTable ==
    [][ VectorElementStep =>
            GrowsTo(objects, objects', last'.obj, last'.obj,
                    parse_usize(last'.name), last'.ret, case_sensitive') ]_vars

\* The table of cell o lets set_array_element(i, _) show its result: it
\* holds no property under str(i) that carries DontEnum, and its "length"
\* property is absent or the stored, non-enumerable one.
ShowsElement(objs, o, i) ==
    LET map == objs[o].values
        k == Find(map, to_string(i), FALSE)
        l == Find(map, LengthName, FALSE)
    IN  /\ k # 0 => is_enumerable(map[k].prop)
        /\ l # 0 => /\ map[l].key = LengthName
                    /\ map[l].prop.kind = "Stored"
                    /\ ~is_enumerable(map[l].prop)

\* C13: the same, for a table that holds no property under str(i) carrying
\* DontEnum and whose "length" property is absent or the stored,
\* non-enumerable one.
C13_Grows ==
    [][ (VectorElementStep /\ ShowsElement(objects, last'.obj, parse_usize(last'.name)))
        => GrowsTo(objects, objects', last'.obj, last'.obj,
                   parse_usize(last'.name), last'.ret, case_sensitive') ]_vars

\* set_array_element(1, v) as the first operation on the new array: its
\* length is 2, element 0 reads Undefined, "1" is listed and "length" is not.
C13_Witness ==
    /\ steps = 1
    /\ last.op = "set_array_element"
    /\ last.obj = ArrayCell
    /\ last.name = One
    /\ last.ret = Number(2)
    /\ objects[ArrayCell].array.vector = <<Undefined, last.value>>
    /\ Get(ArrayCell, LengthName) = Number(2)
    /\ Listed(get_keys(objects, shared, ArrayCell, case_sensitive), One)
    /\ ~Listed(get_keys(objects, shared, ArrayCell, case_sensitive), LengthName)

----------------------------------------------------------------------------
(* C14 *)

\* C14: delete(name) returns true exactly when an own property (stored or
\* virtual) with that name exists and lacks DontDelete, and then the property
\* is removed, get(name) is Undefined and has_own_property(name) is false;
\* in every other case (DontDelete, no such name, "__proto__") it returns
\* false and the state of the object is unchanged.
C14_Delete ==
    [][ last'.op = "delete" =>
            LET name == last'.name
                o == Base(shared, last'.obj)
                map == objects[o].values
                i == Find(map, name, case_sensitive)
                deletable == name # ProtoName /\ i # 0 /\ can_delete(map[i].prop)
            IN  /\ last'.ret = deletable
                /\ IF deletable
                   THEN /\ Find(objects'[o].values, name, case_sensitive) = 0
                        /\ get(objects', shared', last'.obj, name, case_sensitive')
                              = Undefined
                        /\ ~has_own_property(objects', shared', last'.obj, name,
                                             case_sensitive')
                   ELSE objects' = objects ]_vars

----------------------------------------------------------------------------
(* C15 *)

\* C15: define_value(name, value, attrs) always resolves the key
\* case-sensitively, whatever the activation's flag: it replaces only a
\* property whose key is exactly `name`; a property whose key differs from
\* `name` only in ASCII case is left untouched and a separate Stored
\* property is inserted under `name`.
C15_DefineValueExact ==
    [][ last'.op = "define_value" =>
            LET o == Base(shared, last'.obj)
                map == objects[o].values
                exact == Find(map, last'.name, TRUE)
                stored == Stored(last'.value, last'.attributes)
            IN  objects'[o].values =
                    IF exact # 0
                    THEN [map EXCEPT ![exact].prop = stored]
                    ELSE Append(map, [key |-> last'.name, prop |-> stored]) ]_vars

----------------------------------------------------------------------------
(* SpecLength: a plain object (Properties storage) under the operations    *)
(* that touch its length overlay and its "length" property.                *)

InitLength ==
    /\ objects = (ProtoCell :> NewObjectData(NoObject))
                 @@ (ObjectCell :> NewObjectData(ProtoCell))
    /\ shared = <<>>
    /\ case_sensitive \in BOOLEAN
    /\ hung = FALSE
    /\ steps = 0
    /\ last = NoLast

NextLength ==
    \/ \E v \in {Number(1), Number(2), StrA} : Set(ObjectCell, LengthName, v)
    \/ \E n \in {One, Foo} : Set(ObjectCell, n, StrB)
    \/ \E n \in 0..MaxIndex : SetLength(ObjectCell, n)
    \/ \E i \in 0..(MaxIndex - 1) : SetArrayElement(ObjectCell, i, StrA)
    \/ \E n \in {LengthName, Foo} : DefineValue(ObjectCell, n, StrA, {})
    \/ \E n \in {LengthName, One} : Delete(ObjectCell, n)

SpecLength == InitLength /\ [][NextLength]_vars

----------------------------------------------------------------------------
(* C16 *)

\* C16: for every object with Properties storage, in every reachable state,
\* a stored "length" property, if present in the table, has a value equal
\* to the overlay's length field (the value length() returns).
C16_LengthOverlay ==
    \A o \in DOMAIN objects :
        ~IsVector(objects[o].array) =>
            LET map == objects[o].values
                l == Find(map, LengthName, TRUE)
            IN  (l # 0 /\ map[l].prop.kind = "Stored")
                    => map[l].prop.value = Number(length(objects, o))

----------------------------------------------------------------------------
(* SpecErrors: an object and its prototype with stored properties,         *)
(* writable and ReadOnly, and virtual properties whose getter or setter    *)
(* fails, under set and get_local.                                         *)

InitErrors ==
    /\ objects = (ProtoCell :> NewObjectData(NoObject))
                 @@ (ObjectCell :> NewObjectData(ProtoCell))
    /\ shared = <<>>
    /\ case_sensitive \in BOOLEAN
    /\ hung = FALSE
    /\ steps = 0
    /\ last = NoLast

NextErrors ==
    \/ \E c \in {ProtoCell, ObjectCell}, g \in {GetterErr, GetterVirtual},
          s \in {SetterErr, SetterOk, NoExec} : AddProperty(c, Foo, g, s, {})
    \/ \E a \in {{}, {ReadOnly}} : DefineValue(ObjectCell, Foo, StrA, a)
    \/ \E n \in {Foo, FOO, EmptyName, One} : Set(ObjectCell, n, StrB)
    \/ \E c \in {ProtoCell, ObjectCell} : Set(ObjectCell, ProtoName, ObjectValue(c))
    \/ \E n \in {Foo, ProtoName} : GetLocal(ObjectCell, n)

SpecErrors == InitErrors /\ [][NextErrors]_vars

----------------------------------------------------------------------------
(* C17 *)

\* The callable the last operation executed failed.
LastCallFailed ==
    /\ Len(last.calls) = 1
    /\ Exec(last.calls[1].fn, last.calls[1].this, last.calls[1].base_proto,
            last.calls[1].args) = Err

\* C17: property mutation never fails visibly: every set that returns,
\* returns Ok, whatever the name and the value: a write to a ReadOnly
\* property, the empty name (which leaves the whole state unchanged and
\* executes no callable) and a setter whose execution fails; get_local on a
\* virtual property whose getter fails returns Undefined and no error.
C17_Silent ==
    [][ /\ (last'.op = "set" /\ ~hung') => last'.ret = OkUnit
        /\ (last'.op = "set" /\ last'.name = EmptyName)
              => /\ objects' = objects
                 /\ last'.calls = <<>>
                 /\ ~hung'
        /\ (last'.op = "get_local" /\ LastCallFailed')
              => last'.ret = Ok(Undefined) ]_vars

\* A set whose setter failed has returned Ok.
C17_Witness ==
    /\ last.op = "set"
    /\ LastCallFailed
    /\ last.calls[1].fn = SetterErr
    /\ last.ret = OkUnit

----------------------------------------------------------------------------
(* Borrows.  Every access to the interior of an object goes through        *)
(* self.0.read() or self.0.write(gc_context); the guard lives to the end   *)
(* of the statement (or of the match / if let) it was created in.  The     *)
(* operators below give, for one call of an operation, its borrow events   *)
(* in program order.                                                       *)

Acquire(kind, c) == [ev |-> kind, cell |-> c]
Release(c) == [ev |-> "release", cell |-> c]
ExecEvent(label) == [ev |-> "exec", cell |-> label]

\* A guard on cell c that is alive while the events of `inner` happen.
Scoped(kind, c, inner) == <<Acquire(kind, c)>> \o inner \o <<Release(c)>>

\* A faulty WriteThenExec that executes the callable inside the match, while
\* the write guard is alive.
ExecInsideWrite(c, execs) == Scoped("write", c, execs)

\* let rval = match self.0.write(..).values.entry(..) { .. };
\* if let Some(rval) = rval { let _ = rval.exec(..); }
WriteThenExec(c, execs) == Scoped("write", c, <<>>) \o execs

\* sync_native_property: match self.0.write(gc_context).values.entry(name, false)
sync_native_property_events(o) == Scoped("write", o, <<>>)

RECURSIVE Repeat(_, _)
Repeat(events, n) == IF n <= 0 THEN <<>> ELSE events \o Repeat(events, n - 1)

\* set_length: the match on self.0.write(..).array, then one
\* sync_native_property per removed index and one for "length"
set_length_events(objs, o, new_length) ==
    Scoped("write", o, <<>>)
    \o Repeat(sync_native_property_events(o),
              IF IsVector(objs[o].array) THEN length(objs, o) - new_length ELSE 0)
    \o sync_native_property_events(o)

\* set_array_element: sync_native_property, the match on
\* self.0.write(..).array, and for a Vector the sync of "length"
set_array_element_events(objs, o) ==
    sync_native_property_events(o)
    \o Scoped("write", o, <<>>)
    \o (IF IsVector(objs[o].array) THEN sync_native_property_events(o) ELSE <<>>)

\* The walk of internal_set from p: has_own_virtual reads p, and when it
\* answers false proto() reads p again.
RECURSIVE walk_events(_, _, _, _, _, _)
walk_events(objs, shrd, p, name, cs, fuel) ==
    IF p = NoObject \/ fuel < 0 THEN <<>>
    ELSE Scoped("read", Base(shrd, p), <<>>)
         \o (IF has_own_virtual(objs, shrd, p, name, cs) THEN <<>>
             ELSE Scoped("read", Base(shrd, p), <<>>)
                  \o walk_events(objs, shrd, proto(objs, shrd, p), name, cs,
                                 fuel - 1))

internal_set_events(objs, shrd, o, name, value, cs) ==
    IF name = ProtoName THEN Scoped("write", o, <<>>)
    ELSE IF parse_usize(name) # NoIndex THEN set_array_element_events(objs, o)
    ELSE IF name # EmptyName
    THEN LET len == coerce_to_length(value)
             new_length == IF len > 0 THEN len ELSE 0
             objs1 == IF name = LengthName THEN set_length(objs, o, new_length)
                      ELSE objs
             r == internal_set(objs, shrd, o, name, value, cs, o, o)
             execs == [i \in 1..Len(r.calls) |-> ExecEvent(r.calls[i].label)]
             is_vacant == ~contains_key(objs1[o].values, name, cs)
             this_proto == IF is_vacant
                           THEN FindVirtual(objs1, shrd, o, name, cs, Fuel(objs1, shrd))
                           ELSE NoObject
         IN  (IF name = LengthName THEN set_length_events(objs, o, new_length)
              ELSE <<>>)
             \o Scoped("read", o, <<>>)
             \o (IF is_vacant
                 THEN walk_events(objs1, shrd, o, name, cs, Fuel(objs1, shrd))
                 ELSE <<>>)
             \o (IF this_proto = Diverges THEN <<>>
                 ELSE IF this_proto # NoObject
                 THEN WriteThenExec(Base(shrd, this_proto), execs)
                 ELSE WriteThenExec(o, execs))
    ELSE <<>>

\* get_local: self.proto() for "__proto__"; otherwise the if let on
\* self.0.read().values.get(..), and the getter after it
get_local_events(objs, o, name, cs) ==
    LET map == objs[o].values
        i == Find(map, name, cs)
    IN  Scoped("read", o, <<>>)
        \o (IF name # ProtoName /\ i # 0 /\ is_virtual(map[i].prop)
            THEN <<ExecEvent("[Getter]")>> ELSE <<>>)

\* delete (let mut object = self.0.write(..)), define_value, add_property
write_events(o) == Scoped("write", o, <<>>)

\* The borrow events of the call that `next` records, made in the state
\* `objs`.
OperationEvents(objs, shrd, next, cs) ==
    LET o == Base(shrd, next.obj)
    IN  CASE next.op = "set" ->
                internal_set_events(objs, shrd, o, next.name, next.value, cs)
          [] next.op = "get_local" -> get_local_events(objs, o, next.name, cs)
          [] next.op \in {"delete", "define_value", "add_property"} -> write_events(o)
          [] OTHER -> <<>>

\* No event of the sequence meets a borrow conflict, given the guards in
\* `held`: a read needs no write guard on its cell, a write needs no guard
\* on its cell at all, and a callable, which may read or write any object,
\* needs no guard to be alive.
RECURSIVE NoConflict(_, _)
NoConflict(events, held) ==
    IF Len(events) = 0 THEN TRUE
    ELSE LET e == Head(events)
             on_cell == {i \in 1..Len(held) : held[i].cell = e.cell}
         IN  CASE e.ev = "read" ->
                    /\ \A i \in on_cell : held[i].ev # "write"
                    /\ NoConflict(Tail(events), Append(held, e))
               [] e.ev = "write" ->
                    /\ on_cell = {}
                    /\ NoConflict(Tail(events), Append(held, e))
               [] e.ev = "release" ->
                    NoConflict(Tail(events),
                               SubSeq(held, 1, Len(held) - 1))
               [] OTHER -> Len(held) = 0 /\ NoConflict(Tail(events), held)

----------------------------------------------------------------------------
(* C18 *)

\* C18: when a getter or setter is executed by get_local or set, no read or
\* write borrow of any object's cell is still held, so a callable that
\* re-enters the same object meets no borrow conflict; and no operation
\* requests a write borrow on a cell while it holds another borrow of it.
C18_Reentrant ==
    [][ NoConflict(OperationEvents(objects, shared, last', case_sensitive), <<>>) ]_vars

\* A set has executed the setter of a virtual property of the prototype,
\* after the reads of its walk and the write borrow of call_setter.
C18_Witness ==
    /\ last.op = "set"
    /\ Len(last.calls) = 1
    /\ last.calls[1].base_proto = ProtoCell
    /\ last.obj = ObjectCell

----------------------------------------------------------------------------
(* SpecWalk: a chain of three objects, ChildCell -> ObjectCell ->          *)
(* ProtoCell, with virtual properties (with and without a setter) and      *)
(* stored properties on the ancestors, under set on ChildCell.             *)

InitWalk ==
    /\ objects = (ProtoCell :> NewObjectData(NoObject))
                 @@ (ObjectCell :> NewObjectData(ProtoCell))
                 @@ (ChildCell :> NewObjectData(ObjectCell))
    /\ shared = <<>>
    /\ case_sensitive \in BOOLEAN
    /\ hung = FALSE
    /\ steps = 0
    /\ last = NoLast

NextWalk ==
    \/ \E c \in {ProtoCell, ObjectCell}, n \in {Foo, LengthName},
          s \in {SetterOk, NoExec} : AddProperty(c, n, GetterVirtual, s, {})
    \/ \E c \in {ObjectCell, ChildCell} : DefineValue(c, Foo, StrA, {})
    \/ \E n \in {Foo, FOO, LengthName} : Set(ChildCell, n, StrB)
    \/ Delete(ChildCell, Foo)

SpecWalk == InitWalk /\ [][NextWalk]_vars

----------------------------------------------------------------------------
(* C19 *)

\* The prototype chain of h, nearest ancestor first.
RECURSIVE ChainFrom(_, _, _, _)
ChainFrom(objs, shrd, p, fuel) ==
    IF p = NoObject \/ fuel = 0 THEN <<>>
    ELSE <<p>> \o ChainFrom(objs, shrd, proto(objs, shrd, p), fuel - 1)

ProtoChain(objs, shrd, h) ==
    ChainFrom(objs, shrd, proto(objs, shrd, h), Fuel(objs, shrd))

\* The ancestors of h that have an own virtual property `name`, nearest
\* first.
VirtualAncestors(objs, shrd, h, name, cs) ==
    SelectSeq(ProtoChain(objs, shrd, h),
              LAMBDA a : \E i \in 1..Len(objs[Base(shrd, a)].values) :
                  /\ KeyMatches(objs[Base(shrd, a)].values[i].key, name, cs)
                  /\ objs[Base(shrd, a)].values[i].prop.kind = "Virtual"
                  /\ \A j \in 1..(i - 1) :
                        ~KeyMatches(objs[Base(shrd, a)].values[j].key, name, cs))

\* The setter of the own virtual property `name` of a, NoExec when it has
\* none.
SetterOf(objs, shrd, a, name, cs) ==
    LET map == objs[Base(shrd, a)].values
    IN  map[Find(map, name, cs)].prop.set

\* What C19 says of a step set(name, v) on the receiver.
WalksTo(name) ==
    LET o == Base(shared, last'.obj)
        own == \E i \in 1..Len(objects[o].values) :
                  KeyMatches(objects[o].values[i].key, name, case_sensitive)
        found == VirtualAncestors(objects, shared, last'.obj, name, case_sensitive)
    IN  /\ (~own /\ Len(found) > 0) =>
              LET setter == SetterOf(objects, shared, found[1], name, case_sensitive)
              IN  /\ last'.calls =
                        IF setter = NoExec THEN <<>>
                        ELSE <<Call("[Setter]", setter, o, found[1], <<last'.value>>)>>
                  /\ ~\E i \in 1..Len(objects'[o].values) :
                        KeyMatches(objects'[o].values[i].key, name, case_sensitive)
        /\ own => \A i \in 1..Len(last'.calls) : last'.calls[i].base_proto = o

----------------------------------------------------------------------------
(* Termination of the prototype-chain walks.                                *)

\* The walk of internal_set for `name` from h leaves its loop: it reaches
\* an object with an own virtual `name` or the end of the chain.
SetWalkTerminates(objs, shrd, h, name, cs) ==
    FindVirtual(objs, shrd, h, name, cs, Fuel(objs, shrd)) # Diverges

\* The recursion of has_property returns: it finds an own `name` or reaches
\* an object without prototype.
HasPropertyTerminates(objs, shrd, h, name, cs) ==
    HasPropertyWalk(objs, shrd, h, name, cs, Fuel(objs, shrd)) # Diverges

\* get_keys recurses into the prototype before it looks at anything else, so
\* it returns exactly when the chain reaches None.
GetKeysTerminates(objs, shrd, h) == ProtoChainEnds(objs, shrd, h)

\* C20: every prototype-chain-walking operation terminates on every object
\* graph the public operations can build: no set has entered a walk it
\* never leaves, and on every object the virtual-setter walk of set,
\* has_property and get_keys return, for every name, also when
\* set("__proto__", ..) has made the prototype chain cyclic.
C20_WalksTerminate ==
    /\ ~hung
    /\ \A h \in DOMAIN objects :
          /\ GetKeysTerminates(objects, shared, h)
          /\ \A name \in Names :
                /\ SetWalkTerminates(objects, shared, h, name, case_sensitive)
                /\ HasPropertyTerminates(objects, shared, h, name, case_sensitive)


----------------------------------------------------------------------------
(* SpecSetLength: a plain object and an array whose "length" is written    *)
(* through set, with own "length" properties that are stored, ReadOnly or  *)
(* virtual, and a virtual "length" on the prototype.                       *)

LENGTH == <<"L", "E", "N", "G", "T", "H">>

InitSetLength ==
    /\ objects = NewArray((ProtoCell :> NewObjectData(NoObject))
                          @@ (ObjectCell :> NewObjectData(ProtoCell)),
                          ArrayCell, ProtoCell)
    /\ shared = <<>>
    /\ case_sensitive \in BOOLEAN
    /\ hung = FALSE
    /\ steps = 0
    /\ last = NoLast

NextSetLength ==
    \/ \E c \in {ObjectCell, ArrayCell},
          v \in {Number(0 - 2), Number(0), Number(1), Number(2), StrA} :
          Set(c, LengthName, v)
    \/ \E c \in {ObjectCell, ArrayCell}, n \in {LengthName, LENGTH},
          a \in {{}, {ReadOnly}} : DefineValue(c, n, StrB, a)
    \/ \E c \in {ProtoCell, ObjectCell}, s \in {SetterOk, NoExec} :
          AddProperty(c, LengthName, GetterVirtual, s, {})
    \/ \E c \in {ObjectCell, ArrayCell} : SetArrayElement(c, 1, StrA)

SpecSetLength == InitSetLength /\ [][NextSetLength]_vars

----------------------------------------------------------------------------
(* C21 *)

\* |v| truncated to an integer for a number, 0 for a value that is none.
AbsLength(v) == IF v[1] # "Number" THEN 0 ELSE IF v[2] < 0 THEN 0 - v[2] ELSE v[2]

\* The step is a set("length", v) that returned.
SetLengthStep == last'.op = "set" /\ last'.name = LengthName /\ ~hung'

\* The numeric half of set("length", v): the array storage is the one
\* set_length(r) leaves, r = |v| for a number and 0 otherwise, and length()
\* is max(r, 0) afterwards.
LengthAdjusted(objs_before, objs_after, o, v) ==
    LET r == AbsLength(v)
        m == IF r > 0 THEN r ELSE 0
    IN  /\ objs_after[o].array = set_length(objs_before, o, m)[o].array
        /\ length(objs_after, o) = m

\* Every own key of o that is "length" up to ASCII case is spelled
\* "length" and names a stored property that is not ReadOnly.
LengthWritable(objs, o) ==
    \A i \in 1..Len(objs[o].values) :
        LET e == objs[o].values[i]
        IN  eq_ignore_ascii_case(e.key, LengthName) =>
                /\ e.key = LengthName
                /\ e.prop.kind = "Stored"
                /\ ReadOnly \notin e.prop.attributes

\* C21: set("length", v) has a dual effect: with r the absolute value of
\* the number v coerces to (0 when the coercion fails) it calls
\* set_length(r) when r > 0 and set_length(0) otherwise, so that length()
\* is max(r, 0) afterwards, and then falls through to the ordinary write,
\* so that the "length" property holds the written value v.
C21_SetLengthDual ==
    [][ SetLengthStep =>
          LET o == Base(shared, last'.obj)
              v == last'.value
          IN  /\ LengthAdjusted(objects, objects', o, v)
              /\ get_local(objects', o, LengthName, case_sensitive, o) = v ]_vars

\* C21 (amended): the numeric half always holds; the "length" property
\* holds v afterwards when every own property of the receiver whose key is
\* "length" up to case is spelled "length", stored and not ReadOnly.
C21_SetLengthWritable ==
    [][ SetLengthStep =>
          LET o == Base(shared, last'.obj)
              v == last'.value
          IN  /\ LengthAdjusted(objects, objects', o, v)
              /\ LengthWritable(objects, o) =>
                    /\ get_local(objects', o, LengthName, case_sensitive, o) = v
                    /\ LET i == Find(objects'[o].values, LengthName, TRUE)
                       IN  i # 0 /\ objects'[o].values[i].prop.kind = "Stored" ]_vars

\* A set("length", -2) on the array has resized it to 2 slots and stored -2
\* under "length".
C21_Witness ==
    /\ last.op = "set" /\ last.name = LengthName /\ last.obj = ArrayCell
    /\ last.value = Number(0 - 2)
    /\ length(objects, ArrayCell) = 2
    /\ get_local(objects, ArrayCell, LengthName, case_sensitive, ArrayCell)
          = Number(0 - 2)
    /\ ~hung


----------------------------------------------------------------------------
(* SpecDeleteElement: the objects of SpecElements with                     *)
(* delete_array_element added to their operations.                         *)

NextDeleteElement ==
    \/ NextElements
    \/ \E c \in {ArrayCell, ObjectCell}, i \in 0..MaxIndex : DeleteArrayElement(c, i)

SpecDeleteElement == InitElements /\ [][NextDeleteElement]_vars

----------------------------------------------------------------------------
(* C22 *)

\* C22: delete_array_element(i) on Vector storage with i < length() sets
\* slot i to Undefined and leaves length(), every other slot and the whole
\* property table unchanged; with i >= length(), or on Properties storage,
\* it changes nothing at all.
C22_DeleteArrayElement ==
    [][ last'.op = "delete_array_element" =>
          LET o == Base(shared, last'.obj)
              i == parse_usize(last'.name)
              before == objects[o]
              after == objects'[o]
          IN  /\ \A c \in DOMAIN objects \ {o} : objects'[c] = objects[c]
              /\ DOMAIN objects' = DOMAIN objects
              /\ IF IsVector(before.array) /\ i < length(objects, o)
                 THEN /\ IsVector(after.array)
                      /\ after.array.vector[i + 1] = Undefined
                      /\ length(objects', o) = length(objects, o)
                      /\ \A j \in 1..Len(before.array.vector) :
                            j # i + 1 => after.array.vector[j] = before.array.vector[j]
                      /\ after.values = before.values
                      /\ after.prototype = before.prototype
                 ELSE after = before ]_vars

\* delete_array_element(0) has cleared a slot of the array that held "a",
\* the second slot still holds its value and the table still has "0".
C22_Witness ==
    /\ last.op = "delete_array_element" /\ last.obj = ArrayCell
    /\ LastIndex = 0
    /\ length(objects, ArrayCell) = 2
    /\ objects[ArrayCell].array.vector[1] = Undefined
    /\ objects[ArrayCell].array.vector[2] # Undefined
    /\ Find(objects[ArrayCell].values, Zero, TRUE) # 0


----------------------------------------------------------------------------
(* SpecSync: an object whose table holds stored properties with and        *)
(* without attributes and virtual properties, under keys that differ in    *)
(* case, mirrored into by sync_native_property.                            *)

InitSync ==
    /\ objects = (ProtoCell :> NewObjectData(NoObject))
                 @@ (ObjectCell :> NewObjectData(ProtoCell))
    /\ shared = <<>>
    /\ case_sensitive \in BOOLEAN
    /\ hung = FALSE
    /\ steps = 0
    /\ last = NoLast

NextSync ==
    \/ \E n \in {Foo, FOO}, v \in {NoValue, Some(StrB)}, e \in BOOLEAN :
          SyncNativeProperty(ObjectCell, n, v, e)
    \/ \E n \in {Foo, Bar}, a \in {{}, {ReadOnly}, {DontDelete, DontEnum}} :
          DefineValue(ObjectCell, n, StrA, a)
    \/ \E s \in {SetterOk, NoExec} : AddProperty(ObjectCell, Foo, GetterVirtual, s, {})
    \/ \E n \in {Foo, FOO} : Set(ObjectCell, n, StrA)

SpecSync == InitSync /\ [][NextSync]_vars

----------------------------------------------------------------------------
(* C23 *)

\* What sync_native_property(name, value, enumerable) may do to the table
\* `before`, the property at `name` being the entry at position i (0 when
\* the name is vacant): an upsert of that entry that leaves a virtual
\* property and every other entry alone.
Upsert(before, after, i, name, value, attributes) ==
    IF i # 0 /\ before[i].prop.kind = "Stored" /\ value = Undefined
    THEN \* removed; the other entries keep their order
         /\ Len(after) = Len(before) - 1
         /\ \A j \in 1..Len(after) :
               after[j] = IF j < i THEN before[j] ELSE before[j + 1]
    ELSE IF i # 0 /\ before[i].prop.kind = "Stored"
    THEN \* only the value is overwritten
         /\ Len(after) = Len(before)
         /\ \A j \in 1..Len(after) : j # i => after[j] = before[j]
         /\ after[i].key = before[i].key
         /\ after[i].prop.kind = "Stored"
         /\ after[i].prop.value = value
         /\ after[i].prop.attributes = before[i].prop.attributes
    ELSE IF i = 0 /\ value # Undefined
    THEN \* inserted
         /\ Len(after) = Len(before) + 1
         /\ \A j \in 1..Len(before) : after[j] = before[j]
         /\ after[Len(after)] = [key |-> name, prop |-> Stored(value, attributes)]
    ELSE after = before

\* The step is a sync_native_property whose effect on the table is the
\* upsert of the entry `name` resolves to under the lookup mode cs.
SyncStep(cs) ==
    last'.op = "sync_native_property" =>
        LET o == last'.obj
            map == objects[o].values
        IN  /\ Upsert(map, objects'[o].values, Find(map, last'.name, cs),
                      last'.name, last'.value, last'.attributes)
            /\ objects' = [objects EXCEPT ![o].values = objects'[o].values]

\* C23: sync_native_property(name, value, enumerable) is an upsert that
\* never touches virtual properties: an existing Stored property is removed
\* when value is None and otherwise gets the value, keeping its attribute
\* set; a vacant name gets Stored{v, {} if enumerable else {DontEnum}} for
\* Some(v) and nothing for None; a Virtual property at that name is left
\* unchanged, and no property other than the one at `name` (as the
\* activation resolves names) is changed.
C23_SyncUpsert == [][ SyncStep(case_sensitive) ]_vars

\* What the code does instead: the entry it upserts is the first inserted
\* one whose key equals `name` up to ASCII case, whatever the case
\* sensitivity of the activation.
SyncUpsertFolded == [][ SyncStep(FALSE) ]_vars


----------------------------------------------------------------------------
(* SpecIndexSet: a plain object and an array, written through set under    *)
(* names that parse as an index, with stored, ReadOnly and virtual         *)
(* properties under the index key on the object and on its prototype.      *)

NextIndexSet ==
    \/ \E c \in {ObjectCell, ArrayCell}, n \in {Zero, One, PlusOne},
          v \in {StrA, StrB} : Set(c, n, v)
    \/ \E c \in {ProtoCell, ObjectCell, ArrayCell}, s \in {SetterOk, NoExec} :
          AddProperty(c, One, GetterVirtual, s, {})
    \/ \E c \in {ObjectCell, ArrayCell} : DefineValue(c, One, StrA, {ReadOnly})
    \/ \E c \in {ObjectCell, ArrayCell} : SetLength(c, 1)

SpecIndexSet == InitElements /\ [][NextIndexSet]_vars

----------------------------------------------------------------------------
(* C24 *)

\* C24: set(name, v) with a name that parses as an unsigned integer i never
\* executes a setter, neither of an own virtual property named str(i) nor
\* of one on the prototype chain, and reaches neither the virtual-setter
\* walk nor the ordinary write: its whole effect is set_array_element(i, v),
\* which writes under the canonical key str(i) and not under the spelling
\* of `name`, leaves an own virtual property at that key unchanged, and on
\* Properties storage leaves length() unchanged.
C24_IndexSet ==
    [][ (last'.op = "set" /\ parse_usize(last'.name) # NoIndex) =>
          LET o == Base(shared, last'.obj)
              i == parse_usize(last'.name)
              key == to_string(i)
              before == objects[o].values
              after == objects'[o].values
              b == Find(before, key, FALSE)
              a == Find(after, key, FALSE)
          IN  /\ last'.calls = <<>> /\ ~hung' /\ last'.ret = OkUnit
              /\ objects' = set_array_element(objects, o, i, last'.value).objs
              /\ a # 0 /\ after[a].key = key
              /\ IF b # 0 /\ is_virtual(before[b].prop)
                 THEN after[a] = before[b]
                 ELSE after[a].prop.kind = "Stored" /\ after[a].prop.value = last'.value
              /\ last'.name # key =>
                    (Find(after, last'.name, TRUE) # 0
                        <=> Find(before, last'.name, TRUE) # 0)
              /\ ~IsVector(objects[o].array) =>
                    length(objects', o) = length(objects, o) ]_vars

\* set("+1", "b") on the plain object, whose prototype has a virtual "1"
\* with a setter: no setter ran, "b" is stored under "1", no key "+1"
\* exists and length() is still 0.
C24_Witness ==
    /\ last.op = "set" /\ last.name = PlusOne /\ last.obj = ObjectCell
    /\ last.value = StrB /\ last.calls = <<>>
    /\ has_own_virtual(objects, shared, ProtoCell, One, case_sensitive)
    /\ call_setter(objects, shared, ProtoCell, One, StrB, case_sensitive) = SetterOk
    /\ get_local(objects, ObjectCell, One, case_sensitive, ObjectCell) = StrB
    /\ Find(objects[ObjectCell].values, PlusOne, TRUE) = 0
    /\ length(objects, ObjectCell) = 0


----------------------------------------------------------------------------
(* SpecDelegate: the SharedObject of SpecShared under every operation the  *)
(* model has, each performed through the wrapper handle or on the base.    *)

NextDelegate ==
    \/ \E h \in {SharedCell, SharedBase} :
          \/ \E n \in {Foo, One, LengthName}, v \in {StrA, Number(1)} : Set(h, n, v)
          \/ Set(h, ProtoName, ObjectValue(ProtoCell))
          \/ Delete(h, Foo)
          \/ DefineValue(h, Foo, StrA, {ReadOnly})
          \/ AddProperty(h, Foo, GetterThis, SetterOk, {})
          \/ AddPropertyWithCase(h, FOO, GetterVirtual, NoExec, {})
          \/ SetAttributes(h, Some(Foo), {DontEnum}, {ReadOnly})
          \/ SetProto(h, NoObject)
          \/ SetLength(h, 1)
          \/ SetArrayElement(h, 0, StrB)
          \/ DeleteArrayElement(h, 0)
          \/ GetLocal(h, Foo)
    \/ SetName(SharedCell, Bar)

SpecDelegate == InitShared /\ [][NextDelegate]_vars

----------------------------------------------------------------------------
(* C25 *)

\* The step, an operation `op` of the capability set invoked on handle h,
\* has the result and leaves the heap that the same call with the same
\* arguments has when it is invoked on the ScriptObject b.
SameAsOn(b) ==
    LET l == last'
        cs == case_sensitive
        direct_set == set(objects, shared, b, l.name, l.value, cs)
        direct_delete == delete(objects, b, l.name, cs)
        direct_element == set_array_element(objects, b, parse_usize(l.name), l.value)
    IN  CASE l.op = "set" ->
               /\ objects' = direct_set.objs /\ l.calls = direct_set.calls
               /\ l.ret = set_result(direct_set.calls)
          [] l.op = "delete" ->
               objects' = direct_delete.objs /\ l.ret = direct_delete.ret
          [] l.op = "define_value" ->
               objects' = define_value(objects, b, l.name, l.value, l.attributes)
          [] l.op = "add_property" ->
               objects' = add_property(objects, b, l.name, GetterThis, SetterOk,
                                       l.attributes)
          [] l.op = "add_property_with_case" ->
               objects' = add_property_with_case(objects, b, l.name, GetterVirtual,
                                                 NoExec, l.attributes, cs)
          [] l.op = "set_attributes" ->
               objects' = set_attributes(objects, b, Some(l.name), l.attributes,
                                         l.clear_attrs)
          [] l.op = "set_proto" ->
               objects' = set_proto(objects, b, NoObject)
          [] l.op = "set_length" ->
               objects' = set_length(objects, b, l.value[2])
          [] l.op = "set_array_element" ->
               objects' = direct_element.objs /\ l.ret = Number(direct_element.ret)
          [] l.op = "delete_array_element" ->
               objects' = delete_array_element(objects, b, parse_usize(l.name))
          [] l.op = "get_local" ->
               /\ objects' = objects
               /\ l.ret = Ok(get_local(objects, b, l.name, cs, l.obj))
          [] OTHER -> TRUE

----------------------------------------------------------------------------
(* Construction through new.                                               *)

\* activation.avm.prototypes.shared_object: the VM's prototype of shared
\* objects.
shared_object_prototype == ProtoCell

\* GcCell::allocate: the cell after the highest one allocated so far.
Allocate(objs, shrd) ==
    (CHOOSE c \in Cells(objs, shrd) : \A d \in Cells(objs, shrd) : d <= c) + 1

\* A faulty ScriptObject::new that builds a plain object whatever the
\* storage of the receiver.
ScriptObject_new_plain(objs, o, this, cell) == (cell :> NewObjectData(this)) @@ objs

\* ScriptObject::new(this, args) on cell o: the heap with the child
\* allocated in `cell`
ScriptObject_new(objs, o, this, cell) ==
    IF IsVector(objs[o].array)
    THEN NewArray(objs, cell, this)
    ELSE (cell :> NewObjectData(this)) @@ objs

\* SharedObject::get_name
get_name(shrd, h) == IF shrd[h].name = NoValue THEN EmptyName ELSE shrd[h].name[2]

\* new(this, args) through handle h; the record of the call keeps `this` as
\* its value and the child as its result.  SharedObject::new ignores
\* `this` and allocates a wrapper and its base.
New(h, this) ==
    /\ Running
    /\ LET cell == Allocate(objects, shared)
       IN  /\ IF h \in DOMAIN shared
              THEN /\ shared' = (cell :> NewSharedData(cell + 1)) @@ shared
                   /\ objects' = ((cell + 1) :> NewObjectData(shared_object_prototype))
                                 @@ objects
              ELSE /\ objects' = ScriptObject_new(objects, h, this, cell)
                   /\ shared' = shared
           /\ last' = Last("new", h, NoName, ObjectValue(this), {},
                           ObjectValue(cell), <<>>)
    /\ steps' = steps + 1
    /\ UNCHANGED <<case_sensitive, hung>>

----------------------------------------------------------------------------
(* SpecNew: a plain object, an array and a SharedObject, each with some    *)
(* contents, constructing children of one another.                         *)

InitNew ==
    /\ objects = NewArray((ProtoCell :> NewObjectData(NoObject))
                          @@ (ObjectCell :> NewObjectData(NoObject))
                          @@ (SharedBase :> NewObjectData(ObjectCell)),
                          ArrayCell, NoObject)
    /\ shared = (SharedCell :> NewSharedData(SharedBase))
    /\ case_sensitive \in BOOLEAN
    /\ hung = FALSE
    /\ steps = 0
    /\ last = NoLast

NextNew ==
    \/ \E h \in Cells(objects, shared), this \in {ObjectCell, SharedCell} : New(h, this)
    \/ \E h \in {ObjectCell, SharedCell} : Set(h, Foo, StrA)
    \/ SetArrayElement(ArrayCell, 0, StrA)
    \/ SetName(SharedCell, Foo)

SpecNew == InitNew /\ [][NextNew]_vars

----------------------------------------------------------------------------
(* C26 *)

\* Cell c of heap objs is empty: no property, length() = 0.
EmptyObject(objs, c) == objs[c].values = <<>> /\ length(objs, c) = 0

\* C26: new constructs a like-kind fresh child and leaves the receiver
\* unchanged: on a ScriptObject with Vector storage the child is a new
\* array (empty Vector, length() = 0, a non-enumerable stored "length"
\* equal to 0) whose prototype is `this`; on Properties storage it is a new
\* empty plain object with length() = 0 and no "length" key whose prototype
\* is `this`; on a SharedObject it is a new SharedObject with no name
\* (get_name() = "") whose prototype is the VM's shared_object prototype
\* regardless of `this`.
C26_New ==
    [][ last'.op = "new" =>
          LET h == last'.obj
              this == last'.value[2]
              child == last'.ret[2]
          IN  /\ child \notin Cells(objects, shared)
              /\ \A c \in DOMAIN objects : objects'[c] = objects[c]
              /\ \A s \in DOMAIN shared : shared'[s] = shared[s]
              /\ IF h \in DOMAIN shared
                 THEN /\ child \in DOMAIN shared'
                      /\ get_name(shared', child) = EmptyName
                      /\ shared'[child].base \notin Cells(objects, shared)
                      /\ proto(objects', shared', child) = shared_object_prototype
                      /\ EmptyObject(objects', Base(shared', child))
                      /\ ~IsVector(objects'[Base(shared', child)].array)
                 ELSE /\ child \in DOMAIN objects' /\ shared' = shared
                      /\ proto(objects', shared', child) = this
                      /\ length(objects', child) = 0
                      /\ IF IsVector(objects[h].array)
                         THEN /\ objects'[child].array = VectorStorage(<<>>)
                              /\ objects'[child].values =
                                    << [key |-> LengthName,
                                        prop |-> Stored(Number(0), {DontEnum})] >>
                         ELSE /\ ~IsVector(objects'[child].array)
                              /\ EmptyObject(objects', child) ]_vars

\* new on the array, after it got an element, with `this` = the plain
\* object: the child is an empty array whose prototype is the plain
\* object, and the receiver still has its element.
C26_Witness ==
    /\ last.op = "new" /\ last.obj = ArrayCell /\ last.value = ObjectValue(ObjectCell)
    /\ length(objects, ArrayCell) = 1
    /\ IsVector(objects[last.ret[2]].array)
    /\ length(objects, last.ret[2]) = 0
    /\ proto(objects, shared, last.ret[2]) = ObjectCell


----------------------------------------------------------------------------
(* SpecGetLocal: a SharedObject and its base over a prototype, with stored *)
(* and virtual properties on the base and on the prototype, read through   *)
(* get_local under names that are own, inherited and absent.               *)

NextGetLocal ==
    \/ \E h \in {SharedCell, SharedBase}, n \in {Foo, FOO, Bar, ProtoName} :
          GetLocal(h, n)
    \/ \E c \in {ProtoCell, SharedBase}, n \in {Foo, Bar} : DefineValue(c, n, StrA, {})
    \/ \E c \in {ProtoCell, SharedBase}, g \in {GetterThis, GetterErr} :
          AddProperty(c, Foo, g, NoExec, {})
    \/ DefineValue(SharedBase, ProtoName, StrB, {})
    \/ SetProto(SharedCell, NoObject)

SpecGetLocal == InitShared /\ [][NextGetLocal]_vars

----------------------------------------------------------------------------
(* C27 *)

\* C27: get_local answers for own properties only and is read-only on the
\* property table: it returns the prototype (Undefined when there is none)
\* for "__proto__", the stored value for a Stored own property, the value
\* the getter returns, executed with this = this_override and base_proto =
\* self, for a Virtual own property (Undefined when the getter fails), and
\* Undefined for a name that is not an own property, even when an object
\* on the prototype chain has it; a get of a name absent from the object
\* and its whole chain returns Undefined.
C27_GetLocal ==
    [][ last'.op = "get_local" =>
          LET h == last'.obj
              o == Base(shared, h)
              name == last'.name
              map == objects[o].values
              i == Find(map, name, case_sensitive)
          IN  /\ objects' = objects /\ shared' = shared
              /\ IF name = ProtoName
                 THEN /\ last'.calls = <<>>
                      /\ last'.ret = Ok(IF objects[o].prototype = NoObject
                                        THEN Undefined
                                        ELSE ObjectValue(objects[o].prototype))
                 ELSE IF i = 0
                 THEN last'.ret = Ok(Undefined) /\ last'.calls = <<>>
                 ELSE IF map[i].prop.kind = "Stored"
                 THEN last'.ret = Ok(map[i].prop.value) /\ last'.calls = <<>>
                 ELSE LET res == Exec(map[i].prop.get, h, o, <<>>)
                      IN  /\ last'.calls = <<Call("[Getter]", map[i].prop.get, h, o, <<>>)>>
                          /\ last'.ret = Ok(IF res = Err THEN Undefined ELSE res[2])
              /\ \A n \in {Foo, FOO, Bar} :
                    ~has_property(objects, shared, h, n, case_sensitive)
                        => get(objects, shared, h, n, case_sensitive) = Undefined ]_vars

\* get_local("bar") through the SharedObject returned Undefined although
\* the prototype has a stored "bar", and the base has a virtual "foo" whose
\* getter get_local would execute with this = the SharedObject.
C27_Witness ==
    /\ last.op = "get_local" /\ last.obj = SharedCell /\ last.name = Bar
    /\ last.ret = Ok(Undefined)
    /\ get_local(objects, ProtoCell, Bar, case_sensitive, ProtoCell) = StrA
    /\ proto(objects, shared, SharedCell) = ProtoCell
    /\ get_local(objects, SharedBase, Foo, case_sensitive, SharedCell)
          = ObjectValue(SharedCell)


----------------------------------------------------------------------------
(* SpecAttributes: an object with stored and virtual properties under keys *)
(* that differ in case, whose attributes are set and cleared by name and   *)
(* all at once.                                                            *)

NextAttributes ==
    \/ \E n \in {NoValue, Some(Foo), Some(FOO), Some(Bar)},
          s \in {{}, {DontEnum}, {ReadOnly, DontDelete}},
          c \in {{}, {ReadOnly}, {DontEnum, ReadOnly}} :
          SetAttributes(ObjectCell, n, s, c)
    \/ \E n \in {Foo, Bar}, a \in {{}, {ReadOnly}} : DefineValue(ObjectCell, n, StrA, a)
    \/ AddProperty(ObjectCell, Foo, GetterVirtual, SetterOk, {DontDelete})
    \/ Set(ObjectCell, FOO, StrB)

SpecAttributes == Init /\ [][NextAttributes]_vars

----------------------------------------------------------------------------
(* C28 *)

\* A property without its attribute set: its kind and its value or
\* callables.
Payload(prop) == [prop EXCEPT !.attributes = {}]

\* The step is a set_attributes(name?, set_attrs, clear_attrs) that gives
\* every addressed property the attributes (old - clear_attrs) + set_attrs
\* and changes nothing else, a name addressing the entry it resolves to
\* under the lookup mode cs and None addressing every entry; doing the
\* same call again changes nothing.
AttributesStep(cs) ==
    last'.op = "set_attributes" =>
        LET o == Base(shared, last'.obj)
            before == objects[o].values
            after == objects'[o].values
            name == IF last'.name = NoName THEN NoValue ELSE Some(last'.name)
            s == last'.attributes
            c == last'.clear_attrs
            addressed(i) == name = NoValue \/ i = Find(before, name[2], cs)
        IN  /\ Len(after) = Len(before)
            /\ \A i \in 1..Len(before) :
                  /\ after[i].key = before[i].key
                  /\ Payload(after[i].prop) = Payload(before[i].prop)
                  /\ after[i].prop.attributes =
                        IF addressed(i) THEN (before[i].prop.attributes \ c) \cup s
                        ELSE before[i].prop.attributes
            /\ objects' = [objects EXCEPT ![o].values = after]
            /\ set_attributes(objects', o, name, s, c) = objects'

\* C28: set_attributes(name?, set_attrs, clear_attrs) replaces the
\* attribute set of the addressed property by (old - clear_attrs) +
\* set_attrs, so an attribute in both sets ends up set; with name = None
\* this is applied to every own property, with a name that matches no
\* property (as the activation resolves names) nothing changes; no
\* property's value, kind, key or insertion position changes, and applying
\* the same call twice gives the same result as applying it once.
C28_SetAttributes == [][ AttributesStep(case_sensitive) ]_vars

\* What the code does instead: a name addresses the first inserted entry
\* whose key equals it up to ASCII case, whatever the case sensitivity of
\* the activation.
SetAttributesFolded == [][ AttributesStep(FALSE) ]_vars


----------------------------------------------------------------------------
(* C29 *)

\* C29: set("__proto__", v) changes only the prototype link: afterwards
\* proto() and get_local("__proto__") return the object v was coerced to,
\* while the property table, the array storage, type_of and the interface
\* list are unchanged, no setter is executed and no virtual-setter walk
\* happens; has_own_property("__proto__") is true for every object in
\* every state, including objects with no prototype.
C29_SetProto ==
    [][ /\ \A c \in Cells(objects, shared) :
              has_own_property(objects, shared, c, ProtoName, case_sensitive)
        /\ \A c \in Cells(objects', shared') :
              has_own_property(objects', shared', c, ProtoName, case_sensitive)
        /\ (last'.op = "set" /\ last'.name = ProtoName) =>
              LET h == last'.obj
                  o == Base(shared, h)
                  v == last'.value
              IN  /\ ~hung' /\ last'.calls = <<>> /\ last'.ret = OkUnit
                  /\ proto(objects', shared', h) = v[2]
                  /\ get_local(objects', o, ProtoName, case_sensitive, h) = v
                  /\ objects'[o].values = objects[o].values
                  /\ objects'[o].array = objects[o].array
                  /\ objects'[o].type_of = objects[o].type_of
                  /\ objects'[o].interfaces = objects[o].interfaces
                  /\ \A c \in DOMAIN objects \ {o} : objects'[c] = objects[c]
                  /\ shared' = shared ]_vars

\* set("__proto__", O) on O itself, which has an own virtual "__proto__"
\* with a setter: the prototype link now points at O, the setter did not
\* run, and the prototype has no prototype yet answers has_own_property.
C29_Witness ==
    /\ last.op = "set" /\ last.name = ProtoName /\ last.obj = ObjectCell
    /\ last.value = ObjectValue(ObjectCell) /\ last.calls = <<>>
    /\ proto(objects, shared, ObjectCell) = ObjectCell
    /\ call_setter(objects, shared, ObjectCell, ProtoName, StrA, case_sensitive)
          = SetterOk
    /\ proto(objects, shared, ProtoCell) = NoObject
    /\ has_own_property(objects, shared, ProtoCell, ProtoName, case_sensitive)

============================================================================
